---- MODULE Spec2Model ----
(***************************************************************************)
(* Solarman V5 transport/session layer of pysolarmanv5.                    *)
(*                                                                         *)
(* Part 1: the frame codec (pure functions over byte sequences).           *)
(* Part 2: the session state machine in its two execution models, the      *)
(*         threaded one (PySolarmanV5) and the asyncio one                 *)
(*         (PySolarmanV5Async), with the peer as environment.              *)
(*                                                                         *)
(* A frame is a sequence of bytes (naturals below 256).  Python index i    *)
(* is TLA+ index i+1; Python index -k is TLA+ index Len(f)-k+1.            *)
(***************************************************************************)
EXTENDS Integers, Sequences, FiniteSets, TLC

VARIABLES
    \* ---- codec harness (CodecSpec) ----
    c_pc,              \* "init" | "encoded" | "decoded"
    c_pdu,             \* the Modbus frame handed to the encoder
    c_seq0,            \* sequence_number before the encoder ran (None or a byte)
    c_seq,             \* sequence_number after the encoder ran
    c_frame,           \* the frame under test
    c_res,             \* result of the decoder on c_frame
    c_patched,         \* result of the decoder on the frame as the mock peer rewrites it
    \* ---- decoder harness (DecoderSpec) ----
    d_pc,              \* "init" | "decoded" | "parsed"
    d_pdu,             \* the Modbus frame the peer wrapped
    d_how,             \* how d_frame was made: who built it around d_pdu, what was done to it
    d_frame,           \* the frame handed to the decoder
    d_seq,             \* the session's sequence_number when the frame is decoded
    d_ec,              \* v5_error_correction
    d_res,             \* result of the decoder on d_frame
    d_parsed,          \* result of _get_modbus_response on the decoder's PDU
    \* ---- constructor arguments ----
    kwargs,            \* [socket |-> a socket was passed, auto_reconnect |-> value passed]
    mb_request_frame,  \* the Modbus RTU request the caller's request calls pass
    \* ---- session configuration ----
    variant,           \* "thread" (PySolarmanV5) | "async" (PySolarmanV5Async)
    auto_reconnect,    \* _auto_reconnect / _needs_reconnect
    \* ---- session state ----
    sequence_number,   \* None or a byte
    last_frame,        \* _last_frame
    data_wanted,       \* _data_wanted / data_wanted_ev
    data_queue,        \* _data_queue / data_queue (capacity 1)
    sock,              \* self.sock / self.writer: 0 is None, else a connection id
    reader_exit,       \* _reader_exit (threaded)
    reader_thr,        \* _reader_thr / reader_task: 0 is None, else a worker id
    sock_fd,           \* _sock_fd (threaded): 0 is None, else the connection's descriptor
    registered,        \* descriptors registered in self._poll (threaded)
    workers,           \* reader threads, reader tasks and reconnect tasks
    \* ---- the caller ----
    caller,            \* the caller's position and locals
    caller2,           \* a second task calling into the same session (ConcurrentSpec)
    \* ---- the peer and the network ----
    conns,             \* the TCP connections ever opened
    sends,             \* frames the peer has sent so far
    refused            \* the peer has refused (or failed to accept) a connection

codec_vars == <<c_pc, c_pdu, c_seq0, c_seq, c_frame, c_res, c_patched>>
decoder_vars == <<d_pc, d_pdu, d_how, d_frame, d_seq, d_ec, d_res, d_parsed>>
\* what no step of a session with one caller changes
static_vars == <<codec_vars, decoder_vars, kwargs, mb_request_frame, caller2>>
session_vars == <<kwargs, mb_request_frame, variant, auto_reconnect, sequence_number, last_frame, data_wanted,
                  data_queue, sock, reader_exit, reader_thr, sock_fd, registered, workers,
                  caller, caller2, conns, sends, refused>>
vars == <<codec_vars, decoder_vars, session_vars>>

None == -1

-----------------------------------------------------------------------------
(* Python sequence helpers *)

\* s[a:b] for 0 <= a, with Python's clamping; b may be negative (from the end)
Slice(s, a, b) ==
    LET hi == IF b < 0 THEN Len(s) + b ELSE IF b > Len(s) THEN Len(s) ELSE b
    IN  IF hi <= a THEN <<>> ELSE SubSeq(s, a + 1, hi)

\* s[a:]
SliceFrom(s, a) == Slice(s, a, Len(s))

\* struct.pack("<H", n)
PackH(n) == <<n % 256, (n \div 256) % 256>>

-----------------------------------------------------------------------------
(* Protocol constants *)

CONTROL_CODE_HANDSHAKE == 65
CONTROL_CODE_DATA == 66
CONTROL_CODE_INFO == 67
CONTROL_CODE_REQUEST == 69
CONTROL_CODE_HEARTBEAT == 71
CONTROL_CODE_REPORT == 72

\* self.v5_control_codes = CONTROL_CODE.__dict__.values()
v5_control_codes == {CONTROL_CODE_HANDSHAKE, CONTROL_CODE_DATA, CONTROL_CODE_INFO,
                     CONTROL_CODE_REQUEST, CONTROL_CODE_HEARTBEAT, CONTROL_CODE_REPORT}

v5_start == 165
v5_end == 21
v5_control_code_suffix == 16
v5_frametype == 2
\* struct.pack("<I", self.serial) for the logger serial the repository's tests
\* use, 2612749371 = 0x9BBB643B
v5_serial == <<59, 100, 187, 155>>
v5_sensortype == <<0, 0>>
v5_deliverytime == <<0, 0, 0, 0>>
v5_powerontime == <<0, 0, 0, 0>>
v5_offsettime == <<0, 0, 0, 0>>

\* umodbus error_code_to_exception_map: the Modbus exception codes it knows
\* an exception map without entries
error_codes_none == {}

error_codes == {1, 2, 3, 4, 5, 6, 7, 8, 10, 11}

-----------------------------------------------------------------------------
(* Frame codec *)

_get_response_code(code) == code - 48

RECURSIVE SumBytes(_)
SumBytes(data) == IF data = <<>> THEN 0 ELSE (Head(data) % 256) + SumBytes(Tail(data))

_calculate_checksum(data) == SumBytes(data) % 256

\* a checksum that takes the start byte in
_calculate_v5_frame_checksum_from_start(frame) == _calculate_checksum(Slice(frame, 0, -2))

\* checksum over frame[1:-2]
_calculate_v5_frame_checksum(frame) == _calculate_checksum(Slice(frame, 1, -2))

\* a header whose length field counts the whole frame
_v5_header_whole_length(length, control, seq) ==
    <<v5_start>> \o PackH(length + 13) \o <<v5_control_code_suffix>> \o <<control>>
        \o seq \o v5_serial

_v5_header(length, control, seq) ==
    <<v5_start>> \o PackH(length) \o <<v5_control_code_suffix>> \o <<control>>
        \o seq \o v5_serial

_v5_trailer(data) == <<_calculate_checksum(SliceFrom(data, 1)), v5_end>>

\* the value _get_next_sequence_number returns (and stores) when the counter is
\* `cur`; `rnd` is what randrange(0x01, 0xFF) yields on the first call
\* the counter without the & 0xFF
_get_next_sequence_number_no_wrap(cur, rnd) == IF cur = None THEN rnd ELSE cur + 1

_get_next_sequence_number(cur, rnd) == IF cur = None THEN rnd ELSE (cur + 1) % 256

\* the encoder with a one-byte sensor type: the payload header is 14 bytes long
_v5_frame_encoder_short_sensortype(modbus_frame, seqno) ==
    LET length == 15 + Len(modbus_frame)
        header == _v5_header(length, CONTROL_CODE_REQUEST, PackH(seqno))
        payload == <<v5_frametype>> \o <<0>> \o v5_deliverytime
                       \o v5_powerontime \o v5_offsettime \o modbus_frame
        v5_frame == header \o payload
    IN  v5_frame \o _v5_trailer(v5_frame)

\* the frame built around modbus_frame once the sequence number `seqno` was issued
_v5_frame_encoder(modbus_frame, seqno) ==
    LET length == 15 + Len(modbus_frame)
        v5_seq == PackH(seqno)
        header == _v5_header(length, CONTROL_CODE_REQUEST, v5_seq)
        payload == <<v5_frametype>> \o v5_sensortype \o v5_deliverytime
                       \o v5_powerontime \o v5_offsettime \o modbus_frame
        v5_frame == header \o payload
    IN  v5_frame \o _v5_trailer(v5_frame)

\* Result of the decoder: [ok |-> TRUE, pdu |-> ...] or [ok |-> FALSE, err |-> ...]
\* `code` is the Modbus exception code the error names (0: none)
Raises(e) == [ok |-> FALSE, err |-> e, code |-> 0, pdu |-> <<>>]
RaisesException(c) == [ok |-> FALSE, err |-> "V5FrameError: V5 Modbus EXCEPTION", code |-> c,
                       pdu |-> <<>>]
Returns(p) == [ok |-> TRUE, err |-> "", code |-> 0, pdu |-> p]

\* the decoder without its check of the echoed sequence number
_v5_frame_decoder_no_seq_check(v5_frame, seqno, error_correction) ==
    LET n == Len(v5_frame)
    IN  IF n < 3 THEN Raises("struct.error")
        ELSE IF v5_frame[1] # v5_start \/ v5_frame[n] # v5_end
            THEN Raises("V5FrameError: invalid start or end values")
        ELSE IF v5_frame[n - 1] # _calculate_v5_frame_checksum(v5_frame)
            THEN Raises("V5FrameError: invalid V5 checksum")
        ELSE IF n < 6 THEN Raises("IndexError")
        ELSE IF Slice(v5_frame, 7, 11) # v5_serial
            THEN Raises("V5FrameError: incorrect data logger serial number")
        ELSE IF v5_frame[5] # _get_response_code(CONTROL_CODE_REQUEST)
            THEN Raises("V5FrameError: incorrect control code")
        ELSE IF n < 12 THEN Raises("IndexError")
        ELSE IF v5_frame[12] # 2
            THEN Raises("V5FrameError: invalid frametype")
        ELSE LET modbus_frame == Slice(v5_frame, 25, -2)
             IN  IF Len(modbus_frame) < 5
                 THEN IF Len(modbus_frame) > 0 /\ modbus_frame[1] \in error_codes
                      THEN RaisesException(modbus_frame[1])
                      ELSE Raises("V5FrameError: no valid Modbus RTU frame")
                 ELSE Returns(modbus_frame)

\* v5_error_correction only recomputes the local frame_len, which nothing reads
\* afterwards: every index below is taken from the physical buffer.
_v5_frame_decoder(v5_frame, seqno, error_correction) ==
    LET n == Len(v5_frame)
    IN  IF n < 3 THEN Raises("struct.error")
        ELSE IF v5_frame[1] # v5_start \/ v5_frame[n] # v5_end
            THEN Raises("V5FrameError: invalid start or end values")
        ELSE IF v5_frame[n - 1] # _calculate_v5_frame_checksum(v5_frame)
            THEN Raises("V5FrameError: invalid V5 checksum")
        ELSE IF n < 6 THEN Raises("IndexError")
        ELSE IF v5_frame[6] # seqno
            THEN Raises("V5FrameError: invalid sequence number")
        ELSE IF Slice(v5_frame, 7, 11) # v5_serial
            THEN Raises("V5FrameError: incorrect data logger serial number")
        ELSE IF v5_frame[5] # _get_response_code(CONTROL_CODE_REQUEST)
            THEN Raises("V5FrameError: incorrect control code")
        ELSE IF n < 12 THEN Raises("IndexError")
        ELSE IF v5_frame[12] # 2
            THEN Raises("V5FrameError: invalid frametype")
        ELSE LET modbus_frame == Slice(v5_frame, 25, -2)
             IN  IF Len(modbus_frame) < 5
                 THEN IF Len(modbus_frame) > 0 /\ modbus_frame[1] \in error_codes
                      THEN RaisesException(modbus_frame[1])
                      ELSE Raises("V5FrameError: no valid Modbus RTU frame")
                 ELSE Returns(modbus_frame)

\* The body is bytearray(+struct.pack(...) + ... ): the unary plus is applied to a
\* bytes object, which Python rejects, so the call raises TypeError before any
\* frame is built (`now` is int(time.time()), never reached).
_v5_time_response_frame(frame, now) == Raises("TypeError")

\* the response frame the mock data logger of the tests builds around a Modbus
\* frame: control code 0x15, 14 payload bytes before the Modbus frame
v5_frame_response_encoder(modbus_frame, seqno, next_seqno) ==
    LET length == 14 + Len(modbus_frame)
        header == _v5_header(length, _get_response_code(CONTROL_CODE_REQUEST),
                             <<seqno, next_seqno>>)
        payload == <<v5_frametype>> \o <<1>> \o v5_deliverytime
                       \o v5_powerontime \o v5_offsettime \o modbus_frame
        v5_frame == header \o payload
    IN  v5_frame \o _v5_trailer(v5_frame)

\* what the mock peer does to a received request before decoding it:
\* data[3] = 0x10, data[4] = response code, checksum recomputed
PeerRewrite(data) ==
    LET d1 == [data EXCEPT ![4] = 16, ![5] = _get_response_code(CONTROL_CODE_REQUEST)]
    IN  [d1 EXCEPT ![Len(d1) - 1] = _calculate_v5_frame_checksum(d1)]


-----------------------------------------------------------------------------
(* Modbus RTU: the CRC and the response parser of umodbus, as far as          *)
(* _get_modbus_response and the mock data logger use them                     *)

\* bit i of a
Bit(a, i) == (a \div (2 ^ i)) % 2

\* bit i of a ^ b, at its place
XorBit(a, b, i) == ((Bit(a, i) + Bit(b, i)) % 2) * (2 ^ i)

\* crc ^ byte for a 16-bit register and a byte
XorByte(crc, byte) ==
    (crc - (crc % 256))
        + XorBit(crc, byte, 0) + XorBit(crc, byte, 1) + XorBit(crc, byte, 2)
        + XorBit(crc, byte, 3) + XorBit(crc, byte, 4) + XorBit(crc, byte, 5)
        + XorBit(crc, byte, 6) + XorBit(crc, byte, 7)

\* one shift of the CRC register: crc >> 1, xored with the polynomial 0xA001
\* (bits 15, 13 and 0) when the bit shifted out is set
CrcShift ==
    [crc \in 0..65535 |->
        LET c == crc \div 2
        IN  IF crc % 2 = 0 THEN c
            ELSE c + 32768 + (IF Bit(c, 13) = 1 THEN -8192 ELSE 8192)
                   + (IF Bit(c, 0) = 1 THEN -1 ELSE 1)]

\* the CRC register after one more byte: eight shifts
CrcByte(crc, byte) ==
    CrcShift[CrcShift[CrcShift[CrcShift[CrcShift[CrcShift[CrcShift[CrcShift[
        XorByte(crc, byte)]]]]]]]]

\* the CRC register after the bytes data[1..i]
CrcRegister(data) ==
    LET reg[i \in 0..Len(data)] ==
            IF i = 0 THEN 65535
            ELSE LET prev == reg[i - 1]
                 IN  IF prev \in 0..65535 THEN CrcByte(prev, data[i]) ELSE 0
    IN  reg[Len(data)]

\* get_crc(msg): CRC-16/MODBUS of msg, low byte first
get_crc(msg) == PackH(CrcRegister(msg))

\* add_crc(msg)
add_crc(msg) == msg \o get_crc(msg)

\* the result of a parse: the register bytes, or the exception raised
Parsed(data) == [ok |-> TRUE, err |-> "", code |-> 0, pdu |-> data]

\* umodbus function_code_to_function_map: the function codes it knows
function_codes == {1, 2, 3, 4, 5, 6, 15, 16}

\* rtu.parse_response_adu(resp_adu, req_adu) for a read of holding registers:
\* validate_crc (CRCError), the function code of the response PDU (a code that
\* is no function raises the Modbus exception the next byte names), then
\* struct.unpack of resp_pdu[2:] as `quantity` 16-bit registers, quantity taken
\* from the request (struct.error when the length differs)
parse_response_adu(resp_adu, req_adu) ==
    LET resp_pdu == Slice(resp_adu, 1, -2)
        req_pdu == Slice(req_adu, 1, -2)
    IN  IF Len(resp_adu) < 2 THEN Raises("struct.error")
        ELSE IF get_crc(Slice(resp_adu, 0, -2)) # SliceFrom(resp_adu, Len(resp_adu) - 2)
            THEN Raises("CRCError")
        ELSE IF resp_pdu = <<>> THEN Raises("struct.error")
        ELSE IF resp_pdu[1] \notin function_codes
            THEN IF Len(resp_pdu) < 2 THEN Raises("struct.error")
                 ELSE IF resp_pdu[2] \in error_codes
                 THEN [ok |-> FALSE, err |-> "ModbusError", code |-> resp_pdu[2], pdu |-> <<>>]
                 ELSE Raises("KeyError")
        ELSE LET quantity == req_pdu[Len(req_pdu) - 1] * 256 + req_pdu[Len(req_pdu)]
             IN  IF Len(resp_pdu) < 2 \/ Len(resp_pdu) - 2 # 2 * quantity
                 THEN Raises("struct.error")
                 ELSE Parsed(SliceFrom(resp_pdu, 2))

\* a _handle_double_crc that never strips
_handle_double_crc_keeps(frame) == frame

\* _handle_double_crc: strip the last two bytes when they are zero and the two
\* bytes before them are the CRC of what precedes
_handle_double_crc(frame) ==
    IF Len(frame) < 2 \/ SliceFrom(frame, Len(frame) - 2) # <<0, 0>> THEN frame
    ELSE LET stripped == Slice(frame, 0, -2)
         IN  IF Len(stripped) >= 2
                   /\ get_crc(Slice(stripped, 0, -2)) = SliceFrom(stripped, Len(stripped) - 2)
             THEN stripped
             ELSE frame

\* _get_modbus_response, from the Modbus frame the decoder returned on: parse;
\* on struct.error parse what _handle_double_crc gives when that is shorter,
\* else raise the error of the first parse; any other exception propagates
_get_modbus_response(mb_response_frame, mb_request) ==
    LET first == parse_response_adu(mb_response_frame, mb_request)
        response == _handle_double_crc(mb_response_frame)
    IN  IF first.ok \/ first.err # "struct.error" THEN first
        ELSE IF Len(response) # Len(mb_response_frame)
        THEN parse_response_adu(response, mb_request)
        ELSE first

RECURSIVE Registers(_, _)
Registers(quantity, value) ==
    IF quantity = 0 THEN <<>> ELSE <<value \div 256, value % 256>> \o Registers(quantity - 1, value)

\* function_response_from_request(req) of the mock data logger; req is what its
\* decoder returned for the request (the Modbus request after one byte of the
\* request payload).  A start address above 4000 is answered with
\* struct.pack("<H", ex_code); otherwise `quantity` registers are returned with
\* one CRC or two.  `value`, `ex_code` and `double_crc` are the random draws.
function_response_from_request(req, value, ex_code, double_crc) ==
    LET starting_address == req[4] * 256 + req[5]
        quantity == req[6] * 256 + req[7]
        res == <<req[3], 2 * quantity>> \o Registers(quantity, value)
    IN  IF starting_address > 4000 THEN PackH(ex_code)
        ELSE IF double_crc THEN add_crc(add_crc(<<req[2]>> \o res))
        ELSE add_crc(<<req[2]>> \o res)

-----------------------------------------------------------------------------
(* Bounds of the model *)

\* longest Modbus frame handed to the codec harness
MaxPduLen == 5
\* TCP connections ever opened on one session (the first one and the reconnects)
MaxConns == 2
\* request calls the caller makes
MaxRequests == 2
\* unsolicited frames (protocol frames, noise) the peer sends
MaxSends == 1
\* request calls a second caller makes on the same session
MaxSecondRequests == 1

ConnIds == 1..MaxConns

\* byte values the codec harness builds Modbus frames from
ByteSample == {0, 1, 255}

\* sequence states the codec harness starts from
SeqStates == {None, 0, 1, 254, 255}

\* values randrange(0x01, 0xFF) yields in the model: both ends of 1..254
RndChoices == {1, 254}

\* values randrange(0x01, 0xFF) yields for a session of the session model
SessionRnds == {254}

RECURSIVE SeqsUpTo(_, _)
SeqsUpTo(S, n) ==
    IF n = 0 THEN {<<>>}
    ELSE LET shorter == SeqsUpTo(S, n - 1)
         IN  shorter \cup {Append(q, b) : q \in {x \in shorter : Len(x) = n - 1}, b \in S}

-----------------------------------------------------------------------------
(* The codec harness: the encoder and the decoder applied to bounded inputs *)

NoResult == [ok |-> FALSE, err |-> "none", code |-> 0, pdu |-> <<>>]

CodecIdle ==
    /\ c_pc = "off" /\ c_pdu = <<>> /\ c_seq0 = None /\ c_seq = None
    /\ c_frame = <<>> /\ c_res = NoResult /\ c_patched = NoResult

\* how a frame of the decoder harness was made: nothing done to it
Untouched == [built |-> "", echo |-> 0, op |-> "none", at |-> 0, fix |-> FALSE]

DecoderIdle ==
    /\ d_pc = "off" /\ d_pdu = <<>> /\ d_frame = <<>> /\ d_seq = None /\ d_ec = FALSE
    /\ d_how = Untouched
    /\ d_res = NoResult /\ d_parsed = NoResult

\* the codec applied outside any session: a PDU and a sequence state are chosen
CodecInit ==
    /\ c_pc = "init"
    /\ c_pdu \in SeqsUpTo(ByteSample, MaxPduLen)
    /\ c_seq0 \in SeqStates
    /\ c_seq = c_seq0
    /\ c_frame = <<>>
    /\ c_res = NoResult
    /\ c_patched = NoResult
    /\ variant = "none" /\ auto_reconnect = FALSE /\ sequence_number = None
    /\ last_frame = <<>> /\ data_wanted = FALSE /\ data_queue = <<>>
    /\ sock = 0 /\ reader_exit = FALSE /\ reader_thr = 0
    /\ workers = [w \in ConnIds |-> [pc |-> "unborn", data |-> <<>>, wanted |-> FALSE,
                                     zr |-> <<>>]]
    /\ caller = [pc |-> "idle", op |-> "", frame |-> <<>>, rframe |-> <<>>,
                 res |-> [status |-> "", code |-> 0, pdu |-> <<>>, frame |-> <<>>],
                 nreq |-> 0, ndisc |-> 0]
    /\ conns = [c \in ConnIds |-> [st |-> "unborn", peer_closed |-> FALSE,
                                   inbox |-> <<>>, outbox |-> <<>>]]
    /\ sends = 0 /\ refused = FALSE
    /\ d_pc = "off" /\ d_pdu = <<>> /\ d_frame = <<>> /\ d_seq = None /\ d_ec = FALSE
    /\ d_how = [built |-> "", echo |-> 0, op |-> "none", at |-> 0, fix |-> FALSE]
    /\ d_res = [ok |-> FALSE, err |-> "none", code |-> 0, pdu |-> <<>>]
    /\ d_parsed = [ok |-> FALSE, err |-> "none", code |-> 0, pdu |-> <<>>]
    /\ kwargs = [socket |-> FALSE, auto_reconnect |-> FALSE]
    /\ mb_request_frame = <<>>
    /\ sock_fd = 0 /\ registered = {}
    /\ caller2 = [pc |-> "idle", op |-> "", frame |-> <<>>, rframe |-> <<>>,
                  res |-> [status |-> "", code |-> 0, pdu |-> <<>>, frame |-> <<>>],
                  nreq |-> 0, ndisc |-> 0]

\* _v5_frame_encoder: issue the next sequence number, build the request frame
CodecEncode ==
    /\ c_pc = "init"
    /\ \E rnd \in RndChoices :
         /\ c_seq' = _get_next_sequence_number(c_seq0, rnd)
         /\ c_frame' = _v5_frame_encoder(c_pdu, c_seq')
    /\ c_pc' = "encoded"
    /\ UNCHANGED <<c_pdu, c_seq0, c_res, c_patched, decoder_vars, session_vars>>

\* _v5_frame_decoder on the encoder's frame, and on that frame with the control
\* code and checksum rewritten the way the mock peer rewrites a request
CodecDecode ==
    /\ c_pc = "encoded"
    /\ \E ec \in BOOLEAN :
         /\ c_res' = _v5_frame_decoder(c_frame, c_seq, ec)
         /\ c_patched' = _v5_frame_decoder(PeerRewrite(c_frame), c_seq, ec)
    /\ c_pc' = "decoded"
    /\ UNCHANGED <<c_pdu, c_seq0, c_seq, c_frame, decoder_vars, session_vars>>


-----------------------------------------------------------------------------
(* The session model: frames on the wire *)

\* the Modbus RTU request of read_holding_registers(20, 4), with its CRC
ReqPdu == <<1, 3, 0, 20, 0, 4, 4, 13>>

\* the Modbus RTU request of read_holding_registers(4500, 4), which the mock
\* data logger answers with an exception code
ReqPduHigh == <<1, 3, 17, 148, 0, 4, 0, 217>>

\* the value of every register the mock data logger returns
RegisterValue == 7

\* the exception code the mock data logger draws in the model (it draws from
\* 1..6): illegal data address
ExCodes == {2}

\* the answer of the peer to the request frame `req`: the mock data logger
\* rewrites and decodes the request, builds the Modbus answer and wraps it,
\* echoing byte 5 of the request and putting its successor in byte 6
\* what the mock data logger's decoder returns for the request of
\* read_holding_registers(20, 4), and its Modbus answer (no exception code is
\* drawn for this address)
DecodedReqPdu == <<0>> \o ReqPdu
RespPdu == function_response_from_request(DecodedReqPdu, RegisterValue, 1, FALSE)

PeerResponse(req, ex_code) ==
    LET decoded == Slice(PeerRewrite(req), 25, -2)
        enc == IF decoded = DecodedReqPdu THEN RespPdu
               ELSE function_response_from_request(decoded, RegisterValue, ex_code, FALSE)
    IN  v5_frame_response_encoder(enc, req[6], (req[6] + 1) % 256)

\* the counter (heartbeat) packet the test servers send, with byte 5 set to q
\* (the test servers send it with 0x8d there)
CountPacket(q) == <<165, 1, 0, 16, 71, q, 105, 181, 181, 10, 162, 0, 100, 21>>

\* bytes that are no V5 frame (the test server's "gibberish")
Gibberish == <<170, 3, 10, 0, 0, 0, 0, 0, 0, 0, 0, 0, 0, 190, 156>>

\* frames the peer may send without being asked
UnsolicitedFrames ==
    {CountPacket(141), Gibberish}
        \cup (IF sequence_number = None THEN {} ELSE {CountPacket(sequence_number)})

\* a frame whose control code is one of the protocol's non-response codes
IsProtocolFrame(f) ==
    Len(f) >= 5 /\ f[5] # CONTROL_CODE_REQUEST /\ f[5] \in v5_control_codes

IsRequestFrame(f) == Len(f) >= 6 /\ f[1] = v5_start /\ f[5] = CONTROL_CODE_REQUEST

-----------------------------------------------------------------------------
(* The session model: state *)

NoConn == [st |-> "unborn", peer_closed |-> FALSE, inbox |-> <<>>, outbox |-> <<>>, err |-> ""]
NewConn == [NoConn EXCEPT !.st = "open"]

\* zr: the frame of the request that was waiting (flag set by it) when this
\* worker read the end of the stream; <<>> when none was (a history field the properties read)
NoWorker == [pc |-> "unborn", data |-> <<>>, wanted |-> FALSE, zr |-> <<>>]
\* a reader thread starts in _data_receiver, a reader task in _conn_keeper
NewWorker == [NoWorker EXCEPT !.pc = IF variant = "thread" THEN "register" ELSE "read"]

NoOutcome == [status |-> "", code |-> 0, pdu |-> <<>>, frame |-> <<>>]
Outcome(st) == [status |-> st, code |-> 0, pdu |-> <<>>, frame |-> <<>>]

\* `ticket` is kept by a second caller only: the number of request calls the
\* first caller had started when the second one began to wait on the queue;
\* `conn` is the connection the call wrote its request frame to (0: none)
IdleCaller == [pc |-> "idle", op |-> "", frame |-> <<>>, rframe |-> <<>>,
               res |-> NoOutcome, nreq |-> 0, ndisc |-> 0, ticket |-> 0, conn |-> 0]

\* thread.is_alive() / the task has not finished
IsAlive(w) == w # 0 /\ workers[w].pc \notin {"unborn", "done", "crashed", "cancelled"}

\* a connection id not used yet (0 when the model's supply is exhausted)
FreeConn == IF \E c \in ConnIds : conns[c].st = "unborn"
            THEN CHOOSE c \in ConnIds : conns[c].st = "unborn"
                                        /\ \A d \in ConnIds : d < c => conns[d].st # "unborn"
            ELSE 0

\* socket.sendall / writer.write of `frame` on connection c: the bytes are handed
\* to the network (an empty write hands over nothing, and what is written after
\* the peer has closed reaches nobody)
Written(c, frame) ==
    IF frame = <<>> \/ conns[c].peer_closed THEN conns
    ELSE [conns EXCEPT ![c].outbox = Append(@, frame)]

\* sock.shutdown(); sock.close() / writer.close()
Closed(c) == IF c = 0 THEN conns ELSE [conns EXCEPT ![c] = [NoConn EXCEPT !.st = "closed"]]

\* the constructor arguments of the model's sessions: no socket passed, with and
\* without auto_reconnect, and a socket passed together with auto_reconnect=True
KwargsChoices ==
    {[socket |-> FALSE, auto_reconnect |-> FALSE],
     [socket |-> FALSE, auto_reconnect |-> TRUE],
     [socket |-> TRUE, auto_reconnect |-> TRUE]}

\* a _socket_setup that keeps the auto_reconnect argument with a socket passed
_socket_setup_keeps_auto(socket_passed, auto_reconnect_arg) == auto_reconnect_arg

\* _socket_setup, the value it gives self._auto_reconnect:
\* self._auto_reconnect = False if sock else auto_reconnect
_socket_setup(socket_passed, auto_reconnect_arg) ==
    IF socket_passed THEN FALSE ELSE auto_reconnect_arg

\* PySolarmanV5.__init__ + _socket_setup: the constructor connects (or takes the
\* socket passed: self._auto_reconnect = False if sock else auto_reconnect) and starts
\* the reader thread (a constructor that cannot connect raises, and there is
\* no session).  PySolarmanV5Async.__init__: nothing is connected yet.
SessionInit ==
    /\ variant \in {"thread", "async"}
    /\ mb_request_frame \in {ReqPdu, ReqPduHigh}
    /\ kwargs \in KwargsChoices
    /\ variant = "async" => ~kwargs.socket
    /\ auto_reconnect = IF variant = "thread"
                        THEN _socket_setup(kwargs.socket, kwargs.auto_reconnect)
                        ELSE kwargs.auto_reconnect
    /\ caller2 = IdleCaller
    /\ sequence_number = None
    /\ last_frame = <<>>
    /\ data_wanted = FALSE
    /\ data_queue = <<>>
    /\ reader_exit = FALSE
    /\ caller = IdleCaller
    /\ sends = 0
    /\ refused = FALSE
    /\ IF variant = "thread"
       THEN /\ sock = 1
            /\ sock_fd = 1
            /\ registered = {}
            /\ reader_thr = 1
            /\ workers = [w \in ConnIds |-> IF w = 1 THEN [NoWorker EXCEPT !.pc = "register"]
                                            ELSE NoWorker]
            /\ conns = [c \in ConnIds |-> IF c = 1 THEN NewConn ELSE NoConn]
       ELSE /\ sock = 0
            /\ sock_fd = 0
            /\ registered = {}
            /\ reader_thr = 0
            /\ workers = [w \in ConnIds |-> NoWorker]
            /\ conns = [c \in ConnIds |-> NoConn]


-----------------------------------------------------------------------------
(* The decoder applied outside any session: _v5_frame_decoder on a frame built *)
(* around a Modbus frame and then damaged, and _get_modbus_response on the    *)
(* Modbus frame the decoder returns.                                          *)

\* no session: the session variables of a harness run
NoSession ==
    /\ variant = "none" /\ auto_reconnect = FALSE /\ sequence_number = None
    /\ kwargs = [socket |-> FALSE, auto_reconnect |-> FALSE]
    /\ last_frame = <<>> /\ data_wanted = FALSE /\ data_queue = <<>>
    /\ sock = 0 /\ reader_exit = FALSE /\ reader_thr = 0
    /\ sock_fd = 0 /\ registered = {}
    /\ workers = [w \in ConnIds |-> NoWorker]
    /\ caller = IdleCaller /\ caller2 = IdleCaller
    /\ conns = [c \in ConnIds |-> NoConn]
    /\ sends = 0 /\ refused = FALSE

\* the answers of the mock data logger to read_holding_registers(20, 4): with
\* one CRC and with two, and its answers of three registers instead of four
ShortAnswer == <<0, 1, 3, 0, 20, 0, 3, 0, 0>>
RespPduDouble == function_response_from_request(DecodedReqPdu, RegisterValue, 1, TRUE)
RespPduShort == function_response_from_request(ShortAnswer, RegisterValue, 1, FALSE)
RespPduShortDouble == function_response_from_request(ShortAnswer, RegisterValue, 1, TRUE)

\* the answers of a data logger in the harness: the answers above, the answer
\* with a wrong CRC followed by two zero bytes, a five-byte exception response,
\* and the two-byte answers struct.pack("<H", ex_code) for every code 0..11
AnswerPdus ==
    {RespPdu, RespPduDouble, RespPduShort, RespPduShortDouble,
     [RespPdu EXCEPT ![Len(RespPdu)] = (@ + 1) % 256] \o <<0, 0>>,
     <<1, 131, 2, 192, 241>>}
        \cup {PackH(ex_code) : ex_code \in 0..11}

\* byte strings that are no answer of the data logger: all over ByteSample up
\* to MaxPduLen
OtherPdus == SeqsUpTo(ByteSample, MaxPduLen)

\* positions of the bytes the harness changes: start, length, control code,
\* sequence number, serial, frame type; -1 is the checksum byte, 0 the end byte
FlipPositions == {1, 2, 5, 6, 8, 12, -1, 0}

\* lengths the harness cuts a frame to
CutLengths == {0, 1, 2, 3, 5, 6, 11, 12, 25, 27}

\* what the harness appends to a frame: 1 a zero byte, 2 a counter packet,
\* 3 a zero byte and an end byte
Appended(at) == IF at = 1 THEN <<0>> ELSE IF at = 2 THEN CountPacket(141) ELSE <<0, v5_end>>

\* what is done to a frame after it was built
Damages ==
    {[op |-> "none", at |-> 0, fix |-> FALSE]}
        \cup [op : {"flip"}, at : FlipPositions, fix : BOOLEAN]
        \cup [op : {"cut"}, at : CutLengths, fix : BOOLEAN]
        \cup [op : {"append"}, at : 1..3, fix : {FALSE}]

\* frame with its last two bytes made a valid trailer
Retrailed(frame) ==
    IF Len(frame) < 2 THEN frame
    ELSE LET g == [frame EXCEPT ![Len(frame)] = v5_end]
         IN  [g EXCEPT ![Len(g) - 1] = _calculate_checksum(Slice(g, 1, -2))]

Damaged(frame, how) ==
    LET n == Len(frame)
        g == IF how.op = "flip"
             THEN LET at == IF how.at <= 0 THEN n + how.at ELSE how.at
                  IN  [frame EXCEPT ![at] = (@ + 1) % 256]
             ELSE IF how.op = "cut" THEN SubSeq(frame, 1, how.at)
             ELSE IF how.op = "append" THEN frame \o Appended(how.at)
             ELSE frame
    IN  IF how.op = "flip" /\ how.fix
        THEN [g EXCEPT ![n - 1] = _calculate_checksum(Slice(g, 1, -2))]
        ELSE IF how.op = "cut" /\ how.fix THEN Retrailed(g)
        ELSE g

\* the frame around modbus_frame: a response as the data logger builds it or a
\* request as the client builds it
Built(built, modbus_frame, echo) ==
    IF built = "response"
    THEN v5_frame_response_encoder(modbus_frame, echo, (echo + 1) % 256)
    ELSE _v5_frame_encoder(modbus_frame, echo)

DecoderInit ==
    /\ d_pc = "init"
    /\ d_seq \in {None, 254, 255}
    /\ d_ec \in BOOLEAN
    /\ \E built \in {"response", "request"}, echo \in {254, 255} :
         \* the byte strings that are no answer of the data logger come undamaged
         \/ /\ d_pdu \in AnswerPdus
            /\ \E dmg \in Damages :
                 d_how = [built |-> built, echo |-> echo, op |-> dmg.op, at |-> dmg.at,
                          fix |-> dmg.fix]
         \/ /\ d_pdu \in OtherPdus
            /\ d_how = [Untouched EXCEPT !.built = built, !.echo = echo]
    /\ d_frame = Damaged(Built(d_how.built, d_pdu, d_how.echo), d_how)
    /\ d_res = NoResult
    /\ d_parsed = NoResult
    /\ mb_request_frame = ReqPdu
    /\ CodecIdle
    /\ NoSession

\* mb_response_frame = self._v5_frame_decoder(v5_response_frame)
DecoderDecode ==
    /\ d_pc = "init"
    /\ d_res' = _v5_frame_decoder(d_frame, d_seq, d_ec)
    /\ d_pc' = "decoded"
    /\ UNCHANGED <<d_pdu, d_how, d_frame, d_seq, d_ec, d_parsed, codec_vars, session_vars>>

\* _get_modbus_response on the Modbus frame the decoder returned (a decoder
\* that raised has ended the call)
DecoderParse ==
    /\ d_pc = "decoded"
    /\ d_res.ok
    /\ d_parsed' = _get_modbus_response(d_res.pdu, mb_request_frame)
    /\ d_pc' = "parsed"
    /\ UNCHANGED <<d_pdu, d_how, d_frame, d_seq, d_ec, d_res, codec_vars, session_vars>>

-----------------------------------------------------------------------------
(* The request path.  A request call is _send_receive_modbus_frame: encode,    *)
(* _send_receive_frame (threaded) or _send_receive_v5_frame (asyncio), decode. *)

Finish(st) == [caller EXCEPT !.pc = "done", !.res = Outcome(st)]

StartOp(op, pc) == [caller EXCEPT !.pc = pc, !.op = op, !.frame = <<>>, !.rframe = <<>>,
                                  !.res = NoOutcome, !.conn = 0]

\* the outcome of decoding the response frame the call received
Decoded(rframe) ==
    LET r == _v5_frame_decoder(rframe, sequence_number, FALSE)
    IN  [status |-> IF r.ok THEN "ok" ELSE r.err, code |-> r.code, pdu |-> r.pdu,
         frame |-> rframe]

\* threaded: v5_request_frame = self._v5_frame_encoder(mb_request_frame)
T_Start ==
    /\ variant = "thread"
    /\ caller.pc = "idle"
    /\ caller.nreq < MaxRequests
    /\ \E rnd \in SessionRnds :
         LET seqno == _get_next_sequence_number(sequence_number, rnd)
         IN  /\ sequence_number' = seqno
             /\ caller' = [StartOp("request", "alive") EXCEPT
                               !.frame = _v5_frame_encoder(mb_request_frame, seqno),
                               !.nreq = @ + 1]
    /\ UNCHANGED <<static_vars, sock_fd, registered, variant, auto_reconnect, last_frame, data_wanted, data_queue, sock,
                   reader_exit, reader_thr, workers, conns, sends, refused>>

\* threaded: if not self._reader_thr.is_alive(): raise NoSocketAvailableError
T_Alive ==
    /\ caller.pc = "alive"
    /\ caller' = IF IsAlive(reader_thr) THEN [caller EXCEPT !.pc = "send"]
                 ELSE Finish("NoSocketAvailableError")
    /\ UNCHANGED <<static_vars, sock_fd, registered, variant, auto_reconnect, sequence_number, last_frame, data_wanted,
                   data_queue, sock, reader_exit, reader_thr, workers, conns, sends, refused>>

\* threaded: self.sock.sendall(frame); self.sock may be None or closed by now
T_Send ==
    /\ caller.pc = "send"
    /\ IF sock = 0
       THEN caller' = Finish("AttributeError") /\ UNCHANGED conns
       ELSE IF conns[sock].st = "closed"
       THEN caller' = Finish("OSError") /\ UNCHANGED conns
       ELSE /\ conns' = Written(sock, caller.frame)
            /\ caller' = [caller EXCEPT !.pc = "set", !.conn = sock]
    /\ UNCHANGED <<static_vars, sock_fd, registered, variant, auto_reconnect, sequence_number, last_frame, data_wanted,
                   data_queue, sock, reader_exit, reader_thr, workers, sends, refused>>

\* threaded: self._data_wanted.set()
T_SetWanted ==
    /\ caller.pc = "set"
    /\ data_wanted' = TRUE
    /\ caller' = [caller EXCEPT !.pc = "last"]
    /\ UNCHANGED <<static_vars, sock_fd, registered, variant, auto_reconnect, sequence_number, last_frame, data_queue, sock,
                   reader_exit, reader_thr, workers, conns, sends, refused>>

\* threaded: self._last_frame = frame
T_SetLast ==
    /\ caller.pc = "last"
    /\ last_frame' = caller.frame
    /\ caller' = [caller EXCEPT !.pc = "wait"]
    /\ UNCHANGED <<static_vars, sock_fd, registered, variant, auto_reconnect, sequence_number, data_wanted, data_queue, sock,
                   reader_exit, reader_thr, workers, conns, sends, refused>>

\* threaded: response_frame = self._data_queue.get(timeout=...) returns an item;
\* the empty frame raises NoSocketAvailableError before the flag is cleared
T_Get ==
    /\ variant = "thread"
    /\ caller.pc = "wait"
    /\ data_queue # <<>>
    /\ data_queue' = Tail(data_queue)
    /\ caller' = IF Head(data_queue) = <<>> THEN Finish("NoSocketAvailableError")
                 ELSE [caller EXCEPT !.pc = "got", !.rframe = Head(data_queue)]
    /\ UNCHANGED <<static_vars, sock_fd, registered, variant, auto_reconnect, sequence_number, last_frame, data_wanted, sock,
                   reader_exit, reader_thr, workers, conns, sends, refused>>

\* a get without a timeout: on an empty queue it never returns
T_Timeout_never ==
    /\ variant = "thread"
    /\ caller.pc = "wait"
    /\ data_queue = <<>>
    /\ FALSE
    /\ UNCHANGED vars

\* threaded: the get times out: queue.Empty is re-raised, the flag stays as it is
T_Timeout ==
    /\ variant = "thread"
    /\ caller.pc = "wait"
    /\ data_queue = <<>>
    /\ caller' = Finish("queue.Empty")
    /\ UNCHANGED <<static_vars, sock_fd, registered, variant, auto_reconnect, sequence_number, last_frame, data_wanted,
                   data_queue, sock, reader_exit, reader_thr, workers, conns, sends, refused>>

\* threaded: self._data_wanted.clear(); return response_frame; then
\* mb_response_frame = self._v5_frame_decoder(v5_response_frame)
T_Clear ==
    /\ caller.pc = "got"
    /\ data_wanted' = FALSE
    /\ caller' = [caller EXCEPT !.pc = "done", !.res = Decoded(caller.rframe)]
    /\ UNCHANGED <<static_vars, sock_fd, registered, variant, auto_reconnect, sequence_number, last_frame, data_queue, sock,
                   reader_exit, reader_thr, workers, conns, sends, refused>>


\* the call has returned or raised; the caller goes on
Return ==
    /\ caller.pc = "done"
    /\ caller' = [caller EXCEPT !.pc = "idle", !.op = "", !.frame = <<>>, !.rframe = <<>>,
                                !.res = NoOutcome, !.conn = 0]
    /\ UNCHANGED <<static_vars, sock_fd, registered, variant, auto_reconnect, sequence_number, last_frame,
                   data_wanted, data_queue, sock, reader_exit, reader_thr, workers, conns,
                   sends, refused>>

-----------------------------------------------------------------------------
(* The threaded receive loop: PySolarmanV5._data_receiver, one step per shared *)
(* read or write, and _reconnect as it runs inside the loop.                   *)

Goto(w, pc) == [workers EXCEPT ![w] = [NoWorker EXCEPT !.pc = pc]]

\* the request whose frame is written, whose flag is set and which has not
\* returned yet
Waiting == caller.op = "request" /\ caller.pc \in {"last", "wait"} /\ data_wanted
WaitingFrame == IF Waiting THEN caller.frame ELSE <<>>

\* back to the top of the loop; the local `data` is dead until the next recv
Loop(w) == [workers EXCEPT ![w].pc = IF variant = "thread" THEN "poll" ELSE "read",
                           ![w].data = <<>>]

\* a validity check that does not look at the sequence byte
_received_frame_is_valid_any_seq(frame, seqno) ==
    IF frame = <<>> \/ frame[1] # v5_start THEN "invalid"
    ELSE IF Len(frame) < 6 THEN "IndexError"
    ELSE "valid"

\* frame[5] raises IndexError on a frame of fewer than 6 bytes that starts with 0xA5
_received_frame_is_valid(frame, seqno) ==
    IF frame = <<>> \/ frame[1] # v5_start THEN "invalid"
    ELSE IF Len(frame) < 6 THEN "IndexError"
    ELSE IF frame[6] # seqno THEN "invalid"
    ELSE "valid"

\* _received_frame_response: (do_continue, response_frame); the response frame
\* is whatever _v5_time_response_frame yields
_received_frame_response(frame, now) ==
    IF frame[5] # CONTROL_CODE_REQUEST /\ frame[5] \in v5_control_codes
    THEN [do_continue |-> FALSE, response |-> _v5_time_response_frame(frame, now)]
    ELSE [do_continue |-> TRUE, response |-> NoResult]

\* self._poll.register(self.sock.fileno(), ...) at the start of the thread
R_Register(w) ==
    /\ variant = "thread"
    /\ workers[w].pc = "register"
    /\ workers' = IF sock = 0 \/ conns[sock].st = "closed"
                  THEN Goto(w, "crashed") ELSE Loop(w)
    /\ registered' = IF sock = 0 \/ conns[sock].st = "closed"
                     THEN registered ELSE registered \cup {sock}
    /\ UNCHANGED <<static_vars, sock_fd, variant, auto_reconnect, sequence_number, last_frame, data_wanted,
                   data_queue, sock, reader_exit, reader_thr, caller, conns, sends, refused>>

\* the socket has something for recv: data, the peer's FIN, or it was closed
Readable == \E c \in registered : \/ conns[c].inbox # <<>>
                                   \/ conns[c].peer_closed
                                   \/ conns[c].st = "closed"

\* another reader thread is inside self._poll.select(): the poll object
\* of a PollSelector refuses a second caller
ConcurrentPoll(w) == \E v \in ConnIds \ {w} : workers[v].pc = "poll"

\* events = self._poll.select(0.500); if self._reader_exit.is_set(): return
\* (a tick without events and without the exit flag changes nothing; with
\* another thread inside select the call raises RuntimeError, "concurrent
\* poll() invocation", which ends the thread)
R_Poll(w) ==
    /\ workers[w].pc = "poll"
    /\ reader_exit \/ Readable \/ ConcurrentPoll(w)
    /\ workers' = IF ConcurrentPoll(w) THEN Goto(w, "crashed")
                  ELSE IF reader_exit THEN Goto(w, "done") ELSE Goto(w, "recv")
    /\ UNCHANGED <<static_vars, sock_fd, registered, variant, auto_reconnect, sequence_number, last_frame, data_wanted,
                   data_queue, sock, reader_exit, reader_thr, caller, conns, sends, refused>>

\* data = self.sock.recv(1024); any exception (self.sock is None, the socket is
\* closed, the blocking recv times out) gives data = b""
R_Recv(w) ==
    /\ workers[w].pc = "recv"
    /\ IF sock # 0 /\ conns[sock].st = "open" /\ conns[sock].inbox # <<>>
       THEN /\ workers' = [workers EXCEPT ![w].pc = "frame",
                                          ![w].data = Head(conns[sock].inbox)]
            /\ conns' = [conns EXCEPT ![sock].inbox = Tail(@)]
       ELSE /\ workers' = [workers EXCEPT ![w].pc = "zero", ![w].data = <<>>]
            /\ UNCHANGED conns
    /\ UNCHANGED <<static_vars, sock_fd, registered, variant, auto_reconnect, sequence_number, last_frame, data_wanted,
                   data_queue, sock, reader_exit, reader_thr, caller, sends, refused>>

\* if data == b"": the flag is read (if self._data_wanted.is_set(): ... else: ...)
\* and _reconnect() is entered, first half: close the old socket;
\* self.sock = None; self._reader_exit.set()
R_ZeroRead(w) ==
    /\ workers[w].pc = "zero"
    /\ conns' = Closed(sock)
    /\ sock' = 0
    /\ reader_exit' = TRUE
    /\ workers' = [workers EXCEPT ![w].pc = IF auto_reconnect THEN "rc_open" ELSE "rc_after",
                                  ![w].wanted = data_wanted,
                                  ![w].zr = WaitingFrame]
    /\ UNCHANGED <<static_vars, sock_fd, registered, variant, auto_reconnect, sequence_number, last_frame,
                   data_wanted, data_queue, reader_thr, caller, sends, refused>>

\* _reconnect, second half with auto-reconnect: if self._sock_fd:
\* self._poll.unregister(self._sock_fd) (KeyError ends the thread when the
\* descriptor is not registered); self.sock = self._create_socket(); with a socket:
\* self._sock_fd = fileno, self._reader_exit.clear() and a new reader thread
R_ReconnectOpen(w) ==
    /\ workers[w].pc = "rc_open"
    /\ IF sock_fd # 0 /\ sock_fd \notin registered
       THEN /\ workers' = Goto(w, "crashed")
            /\ UNCHANGED <<sock, conns, reader_exit, reader_thr, refused, sock_fd, registered>>
       ELSE /\ registered' = registered \ {sock_fd}
            /\ \/ /\ FreeConn # 0
                  /\ sock' = FreeConn
                  /\ sock_fd' = FreeConn
                  /\ conns' = [conns EXCEPT ![FreeConn] = NewConn]
                  /\ reader_exit' = FALSE
                  /\ reader_thr' = FreeConn
                  /\ workers' = [workers EXCEPT ![w].pc = "rc_after", ![FreeConn] = NewWorker]
                  /\ UNCHANGED refused
               \/ /\ sock' = 0
                  /\ sock_fd' = 0
                  /\ refused' = TRUE
                  /\ workers' = [workers EXCEPT ![w].pc = "rc_after"]
                  /\ UNCHANGED <<conns, reader_exit, reader_thr>>
    /\ UNCHANGED <<static_vars, variant, auto_reconnect, sequence_number, last_frame, data_wanted,
                   data_queue, caller, sends>>

\* after _reconnect(): with data wanted, resend the last frame on the new socket,
\* or hand the empty frame to the caller (put_nowait, queue.Full ignored); return
R_AfterReconnect(w) ==
    /\ workers[w].pc = "rc_after"
    /\ IF ~workers[w].wanted
       THEN /\ workers' = Goto(w, "done")
            /\ UNCHANGED <<conns, data_queue>>
       ELSE IF sock # 0
       THEN IF conns[sock].st = "closed"
            THEN /\ workers' = Goto(w, "crashed")
                 /\ UNCHANGED <<conns, data_queue>>
            ELSE /\ conns' = Written(sock, last_frame)
                 /\ workers' = Goto(w, "done")
                 /\ UNCHANGED data_queue
       ELSE /\ data_queue' = IF data_queue = <<>> THEN <<workers[w].data>> ELSE data_queue
            /\ workers' = Goto(w, "done")
            /\ UNCHANGED conns
    /\ UNCHANGED <<static_vars, sock_fd, registered, variant, auto_reconnect, sequence_number, last_frame, data_wanted, sock,
                   reader_exit, reader_thr, caller, sends, refused>>

\* if not self._received_frame_is_valid(data): continue
\* if not self._handle_protocol_frame(data): continue
\* (an exception raised in either ends the thread)
R_Frame(w) ==
    /\ variant = "thread"
    /\ workers[w].pc = "frame"
    /\ LET data == workers[w].data
           valid == _received_frame_is_valid(data, sequence_number)
       IN  IF valid = "IndexError"
           THEN workers' = Goto(w, "crashed") /\ UNCHANGED conns
           ELSE IF valid = "invalid"
           THEN workers' = Loop(w) /\ UNCHANGED conns
           ELSE LET r == _received_frame_response(data, 0)
                IN  IF r.do_continue
                    THEN workers' = [workers EXCEPT ![w].pc = "route"] /\ UNCHANGED conns
                    ELSE IF ~r.response.ok
                    THEN workers' = Goto(w, "crashed") /\ UNCHANGED conns
                    ELSE IF ~IsAlive(reader_thr)
                    THEN workers' = Loop(w) /\ UNCHANGED conns
                    ELSE IF sock = 0 \/ conns[sock].st = "closed"
                    THEN workers' = Goto(w, "crashed") /\ UNCHANGED conns
                    ELSE /\ conns' = Written(sock, r.response.pdu)
                         /\ workers' = Loop(w)
    /\ UNCHANGED <<static_vars, sock_fd, registered, variant, auto_reconnect, sequence_number, last_frame, data_wanted,
                   data_queue, sock, reader_exit, reader_thr, caller, sends, refused>>

\* if self._data_wanted.is_set(): self._data_queue.put(data, timeout=...)
\* else: discarded
R_Route(w) ==
    /\ workers[w].pc = "route"
    /\ IF ~data_wanted
       THEN workers' = Loop(w) /\ UNCHANGED data_queue
       ELSE IF data_queue = <<>>
       THEN /\ data_queue' = <<workers[w].data>>
            /\ workers' = Loop(w)
       ELSE workers' = [workers EXCEPT ![w].pc = "put"] /\ UNCHANGED data_queue
    /\ UNCHANGED <<static_vars, sock_fd, registered, variant, auto_reconnect, sequence_number, last_frame, data_wanted, sock,
                   reader_exit, reader_thr, caller, conns, sends, refused>>

\* the put on the full queue blocks: it goes through once the slot is free, or it
\* times out and queue.Full ends the thread
R_PutBlocked(w) ==
    /\ workers[w].pc = "put"
    /\ IF data_queue = <<>>
       THEN /\ data_queue' = <<workers[w].data>>
            /\ workers' = Loop(w)
       ELSE /\ workers' = Goto(w, "crashed")
            /\ UNCHANGED data_queue
    /\ UNCHANGED <<static_vars, sock_fd, registered, variant, auto_reconnect, sequence_number, last_frame, data_wanted, sock,
                   reader_exit, reader_thr, caller, conns, sends, refused>>


-----------------------------------------------------------------------------
(* disconnect() and a reconnect the caller asks for, threaded variant *)

\* disconnect(): self._data_wanted.clear(); self._reader_exit.set(); close the
\* socket; self.sock = None
T_Disconnect ==
    /\ variant = "thread"
    /\ caller.pc = "idle"
    /\ caller.ndisc = 0
    /\ data_wanted' = FALSE
    /\ reader_exit' = TRUE
    /\ conns' = Closed(sock)
    /\ sock' = 0
    /\ caller' = [StartOp("disconnect", "join") EXCEPT !.ndisc = @ + 1]
    /\ UNCHANGED <<static_vars, sock_fd, registered, variant, auto_reconnect, sequence_number, last_frame, data_queue,
                   reader_thr, workers, sends, refused>>

\* self._reader_thr.join(.5) returns when the thread has ended or after 0.5 s;
\* if self._sock_fd: self._poll.unregister(self._sock_fd); self._sock_fd = None
\* (unregister raises KeyError for a descriptor that is not registered)
T_Join ==
    /\ caller.pc = "join"
    /\ IF sock_fd # 0 /\ sock_fd \notin registered
       THEN /\ caller' = Finish("KeyError")
            /\ UNCHANGED <<sock_fd, registered>>
       ELSE /\ caller' = Finish("disconnected")
            /\ registered' = registered \ {sock_fd}
            /\ sock_fd' = 0
    /\ UNCHANGED <<static_vars, variant, auto_reconnect, sequence_number, last_frame, data_wanted,
                   data_queue, sock, reader_exit, reader_thr, workers, conns, sends, refused>>

\* _reconnect() called by the caller's thread (as the repository's test_sync
\* does), first half: the old socket is closed; self.sock = None;
\* self._reader_exit.set()
T_Reconnect ==
    /\ variant = "thread"
    /\ caller.pc = "idle"
    /\ conns' = Closed(sock)
    /\ sock' = 0
    /\ reader_exit' = TRUE
    /\ caller' = StartOp("reconnect", "mrc_open")
    /\ UNCHANGED <<static_vars, sock_fd, registered, variant, auto_reconnect, sequence_number, last_frame,
                   data_wanted, data_queue, reader_thr, workers, sends, refused>>

\* _reconnect() called by the caller's thread, second half: with
\* auto-reconnect the descriptor is unregistered (KeyError when it is not
\* registered), a socket is created and, with a socket, the exit flag is
\* cleared and a new reader thread is started
T_ReconnectOpen ==
    /\ caller.pc = "mrc_open"
    /\ IF ~auto_reconnect
       THEN /\ caller' = Finish("reconnected")
            /\ UNCHANGED <<sock, conns, reader_exit, reader_thr, refused, sock_fd, registered, workers>>
       ELSE IF sock_fd # 0 /\ sock_fd \notin registered
       THEN /\ caller' = Finish("KeyError")
            /\ UNCHANGED <<sock, conns, reader_exit, reader_thr, refused, sock_fd, registered, workers>>
       ELSE /\ registered' = registered \ {sock_fd}
            /\ caller' = Finish("reconnected")
            /\ \/ /\ FreeConn # 0
                  /\ sock' = FreeConn
                  /\ sock_fd' = FreeConn
                  /\ conns' = [conns EXCEPT ![FreeConn] = NewConn]
                  /\ reader_exit' = FALSE
                  /\ reader_thr' = FreeConn
                  /\ workers' = [workers EXCEPT ![FreeConn] = NewWorker]
                  /\ UNCHANGED refused
               \/ /\ sock' = 0
                  /\ sock_fd' = 0
                  /\ refused' = TRUE
                  /\ UNCHANGED <<conns, reader_exit, reader_thr, workers>>
    /\ UNCHANGED <<static_vars, variant, auto_reconnect, sequence_number, last_frame, data_wanted,
                   data_queue, sends>>

-----------------------------------------------------------------------------
(* The asyncio variant.  Between two awaits a task runs alone, so each action   *)
(* below is the code from one suspension point to the next.                     *)

\* task.cancel(): a reader task is always suspended in reader.read() when another
\* task runs, so it ends there and its code after the loop never runs
Cancelled(w) ==
    IF w # 0 /\ workers[w].pc = "read" THEN [workers EXCEPT ![w].pc = "cancelled"]
    ELSE workers

\* connect(): open_connection, then the reader task is created.  The model calls
\* it once, on the session as constructed.
A_Connect ==
    /\ variant = "async"
    /\ caller.pc = "idle"
    /\ sock = 0 /\ reader_thr = 0
    /\ \/ /\ FreeConn # 0
          /\ sock' = FreeConn
          /\ conns' = [conns EXCEPT ![FreeConn] = NewConn]
          /\ reader_thr' = FreeConn
          /\ workers' = [workers EXCEPT ![FreeConn] = NewWorker]
          /\ caller' = [StartOp("connect", "done") EXCEPT !.res = Outcome("connected")]
          /\ UNCHANGED refused
       \/ /\ refused' = TRUE
          /\ caller' = [StartOp("connect", "done") EXCEPT
                            !.res = Outcome("NoSocketAvailableError")]
          /\ UNCHANGED <<sock, conns, reader_thr, workers>>
    /\ UNCHANGED <<static_vars, sock_fd, registered, variant, auto_reconnect, sequence_number, last_frame, data_wanted,
                   data_queue, reader_exit, sends>>

\* A request call up to its first suspension: the frame is encoded, then
\* _send_receive_v5_frame: data_wanted_ev.set(); _last_frame = frame;
\* writer.write(frame); await writer.drain(); then it waits on the queue.
\* writer None: AttributeError, raised as NoSocketAvailableError.  A closed
\* writer drops the bytes and drain() raises ConnectionResetError, an OSError
\* that is re-raised as it is.  The finally clause clears the flag.
A_Start ==
    /\ variant = "async"
    /\ caller.pc = "idle"
    /\ caller.nreq < MaxRequests
    /\ \E rnd \in SessionRnds :
         LET seqno == _get_next_sequence_number(sequence_number, rnd)
             frame == _v5_frame_encoder(mb_request_frame, seqno)
             call == [StartOp("request", "wait") EXCEPT !.frame = frame, !.nreq = @ + 1]
         IN  /\ sequence_number' = seqno
             /\ last_frame' = frame
             /\ IF sock = 0
                THEN /\ caller' = [call EXCEPT !.pc = "done",
                                               !.res = Outcome("NoSocketAvailableError")]
                     /\ data_wanted' = FALSE
                     /\ UNCHANGED conns
                ELSE IF conns[sock].st = "closed"
                THEN /\ caller' = [call EXCEPT !.pc = "done",
                                               !.res = Outcome("ConnectionResetError")]
                     /\ data_wanted' = FALSE
                     /\ UNCHANGED conns
                ELSE /\ conns' = Written(sock, frame)
                     /\ data_wanted' = TRUE
                     /\ caller' = [call EXCEPT !.conn = sock]
    /\ UNCHANGED <<static_vars, sock_fd, registered, variant, auto_reconnect, data_queue, sock, reader_exit, reader_thr,
                   workers, sends, refused>>

\* asyncio.Queue wakes its getters in the order they began to wait: of two
\* calls waiting on data_queue the one that began later is behind
FirstIsBehind == caller2.pc = "wait" /\ caller.pc = "wait" /\ caller.nreq > caller2.ticket
SecondIsBehind == caller.pc = "wait" /\ caller2.pc = "wait" /\ caller.nreq = caller2.ticket

\* the queue has an item: wait_for(self.data_queue.get(), ...) returns it; the
\* finally clause clears the flag; the frame is decoded
A_Get ==
    /\ variant = "async"
    /\ caller.pc = "wait"
    /\ ~FirstIsBehind
    /\ data_queue # <<>>
    /\ data_queue' = Tail(data_queue)
    /\ data_wanted' = FALSE
    /\ caller' = IF Head(data_queue) = <<>> THEN Finish("NoSocketAvailableError")
                 ELSE [caller EXCEPT !.pc = "done", !.rframe = Head(data_queue),
                                     !.res = Decoded(Head(data_queue))]
    /\ UNCHANGED <<static_vars, sock_fd, registered, variant, auto_reconnect, sequence_number, last_frame, sock, reader_exit,
                   reader_thr, workers, conns, sends, refused>>

\* socket_timeout expires: wait_for cancels the get; the caller's task is only
\* scheduled, other ready tasks may still run before it
A_TimeoutFires ==
    /\ variant = "async"
    /\ caller.pc = "wait"
    /\ data_queue = <<>>
    /\ caller' = [caller EXCEPT !.pc = "timedout"]
    /\ UNCHANGED <<static_vars, sock_fd, registered, variant, auto_reconnect, sequence_number, last_frame, data_wanted,
                   data_queue, sock, reader_exit, reader_thr, workers, conns, sends, refused>>

\* the caller's task runs again: TimeoutError; finally: data_wanted_ev.clear()
A_TimeoutRaised ==
    /\ caller.pc = "timedout"
    /\ data_wanted' = FALSE
    /\ caller' = Finish("TimeoutError")
    /\ UNCHANGED <<static_vars, sock_fd, registered, variant, auto_reconnect, sequence_number, last_frame, data_queue, sock,
                   reader_exit, reader_thr, workers, conns, sends, refused>>

\* A second task of the same event loop calls a request on the session (as in
\* asyncio.gather of two reads on one client).  Nothing in
\* _send_receive_v5_frame looks at a call in progress: the steps are those of
\* the first caller on the same sequence_number, writer, flag and queue.
B_Start ==
    /\ variant = "async"
    /\ caller2.pc = "idle"
    /\ caller2.nreq < MaxSecondRequests
    /\ \E rnd \in SessionRnds :
         LET seqno == _get_next_sequence_number(sequence_number, rnd)
             frame == _v5_frame_encoder(mb_request_frame, seqno)
             call == [caller2 EXCEPT !.pc = "wait", !.op = "request", !.frame = frame,
                                     !.rframe = <<>>, !.res = NoOutcome, !.nreq = @ + 1,
                                     !.ticket = caller.nreq]
         IN  /\ sequence_number' = seqno
             /\ last_frame' = frame
             /\ IF sock = 0
                THEN /\ caller2' = [call EXCEPT !.pc = "done",
                                                !.res = Outcome("NoSocketAvailableError")]
                     /\ data_wanted' = FALSE
                     /\ UNCHANGED conns
                ELSE IF conns[sock].st = "closed"
                THEN /\ caller2' = [call EXCEPT !.pc = "done",
                                                !.res = Outcome("ConnectionResetError")]
                     /\ data_wanted' = FALSE
                     /\ UNCHANGED conns
                ELSE /\ conns' = Written(sock, frame)
                     /\ data_wanted' = TRUE
                     /\ caller2' = call
    /\ UNCHANGED <<codec_vars, decoder_vars, kwargs, mb_request_frame, caller, sock_fd,
                   registered, variant, auto_reconnect, data_queue, sock, reader_exit,
                   reader_thr, workers, sends, refused>>

B_Get ==
    /\ variant = "async"
    /\ caller2.pc = "wait"
    /\ ~SecondIsBehind
    /\ data_queue # <<>>
    /\ data_queue' = Tail(data_queue)
    /\ data_wanted' = FALSE
    /\ caller2' = IF Head(data_queue) = <<>>
                  THEN [caller2 EXCEPT !.pc = "done", !.res = Outcome("NoSocketAvailableError")]
                  ELSE [caller2 EXCEPT !.pc = "done", !.rframe = Head(data_queue),
                                       !.res = Decoded(Head(data_queue))]
    /\ UNCHANGED <<codec_vars, decoder_vars, kwargs, mb_request_frame, caller, sock_fd,
                   registered, variant, auto_reconnect, sequence_number, last_frame, sock,
                   reader_exit, reader_thr, workers, conns, sends, refused>>

B_TimeoutFires ==
    /\ variant = "async"
    /\ caller2.pc = "wait"
    /\ data_queue = <<>>
    /\ caller2' = [caller2 EXCEPT !.pc = "timedout"]
    /\ UNCHANGED <<codec_vars, decoder_vars, kwargs, mb_request_frame, caller, sock_fd,
                   registered, variant, auto_reconnect, sequence_number, last_frame,
                   data_wanted, data_queue, sock, reader_exit, reader_thr, workers, conns,
                   sends, refused>>

B_TimeoutRaised ==
    /\ caller2.pc = "timedout"
    /\ data_wanted' = FALSE
    /\ caller2' = [caller2 EXCEPT !.pc = "done", !.res = Outcome("TimeoutError")]
    /\ UNCHANGED <<codec_vars, decoder_vars, kwargs, mb_request_frame, caller, sock_fd,
                   registered, variant, auto_reconnect, sequence_number, last_frame,
                   data_queue, sock, reader_exit, reader_thr, workers, conns, sends, refused>>

B_Return ==
    /\ caller2.pc = "done"
    /\ caller2' = [caller2 EXCEPT !.pc = "idle", !.op = "", !.frame = <<>>, !.rframe = <<>>,
                                  !.res = NoOutcome]
    /\ UNCHANGED <<codec_vars, decoder_vars, kwargs, mb_request_frame, caller, sock_fd,
                   registered, variant, auto_reconnect, sequence_number, last_frame,
                   data_wanted, data_queue, sock, reader_exit, reader_thr, workers, conns,
                   sends, refused>>

\* _send_data: with data wanted, replace whatever the queue holds by the frame
\* and clear the flag
_send_data(data) ==
    /\ data_queue' = IF data_wanted THEN <<data>> ELSE data_queue
    /\ data_wanted' = IF data_wanted THEN FALSE ELSE data_wanted

\* _conn_keeper, one turn of the loop: data = await self.reader.read(1024) on the
\* task's connection, then the code up to the next read.  An empty read (or
\* ConnectionResetError) leaves the loop: reader = writer = None and, with
\* auto-reconnect, loop.create_task(self.reconnect()).
\* Any other exception of the read is not caught and ends the task.
K_Read(w) ==
    /\ variant = "async"
    /\ workers[w].pc = "read"
    /\ IF conns[w].inbox # <<>>
       THEN LET data == Head(conns[w].inbox)
                valid == _received_frame_is_valid(data, sequence_number)
            IN  /\ conns' = [conns EXCEPT ![w].inbox = Tail(@)]
                /\ IF valid = "IndexError"
                   THEN /\ workers' = Goto(w, "crashed")
                        /\ UNCHANGED <<data_queue, data_wanted>>
                   ELSE IF valid = "invalid"
                   THEN /\ workers' = Loop(w)
                        /\ UNCHANGED <<data_queue, data_wanted>>
                   ELSE /\ workers' = Loop(w)
                        /\ _send_data(data)
                /\ UNCHANGED sock
       ELSE /\ conns[w].peer_closed
            /\ IF conns[w].err \in {"", "ConnectionResetError"}
               THEN /\ sock' = 0
                    /\ workers' = IF auto_reconnect
                                  THEN [workers EXCEPT ![w].pc = "rc_start", ![w].zr = WaitingFrame]
                                  ELSE Goto(w, "done")
               ELSE /\ workers' = Goto(w, "crashed")
                    /\ UNCHANGED sock
            /\ UNCHANGED <<conns, data_queue, data_wanted>>
    /\ UNCHANGED <<static_vars, sock_fd, registered, variant, auto_reconnect, sequence_number, last_frame, reader_exit,
                   reader_thr, caller, sends, refused>>

\* reconnect() as the task the reader task created, up to its first suspension:
\* if self.reader_task: self.reader_task.cancel(); await open_connection(...)
K_ReconnectStart(w) ==
    /\ workers[w].pc = "rc_start"
    /\ workers' = [Cancelled(reader_thr) EXCEPT ![w].pc = "rc_wait"]
    /\ UNCHANGED <<static_vars, sock_fd, registered, variant, auto_reconnect, sequence_number, last_frame, data_wanted,
                   data_queue, sock, reader_exit, reader_thr, caller, conns, sends, refused>>

\* reconnect() that starts the new reader task but does not store the new writer
K_ReconnectOpen_writer_unset(w) ==
    /\ workers[w].pc = "rc_wait"
    /\ \/ /\ FreeConn # 0
          /\ sock' = 0
          /\ reader_thr' = FreeConn
          /\ workers' = [Goto(w, "done") EXCEPT ![FreeConn] = NewWorker]
          /\ conns' = [conns EXCEPT ![FreeConn] = NewConn]
          /\ UNCHANGED refused
       \/ /\ refused' = TRUE
          /\ workers' = Goto(w, "done")
          /\ UNCHANGED <<sock, reader_thr, conns>>
    /\ UNCHANGED <<static_vars, sock_fd, registered, variant, auto_reconnect, sequence_number, last_frame, data_wanted,
                   data_queue, reader_exit, caller, sends>>

\* open_connection returns: reader and writer are replaced, a new reader task is
\* created and, with data wanted, the last frame is written; or it fails and
\* the exception is logged
K_ReconnectOpen(w) ==
    /\ workers[w].pc = "rc_wait"
    /\ \/ /\ FreeConn # 0
          /\ sock' = FreeConn
          /\ reader_thr' = FreeConn
          /\ workers' = [Goto(w, "done") EXCEPT ![FreeConn] = NewWorker]
          /\ conns' = [conns EXCEPT ![FreeConn] =
                           [NewConn EXCEPT !.outbox = IF data_wanted /\ last_frame # <<>>
                                                      THEN <<last_frame>> ELSE <<>>]]
          /\ UNCHANGED refused
       \/ /\ refused' = TRUE
          /\ workers' = Goto(w, "done")
          /\ UNCHANGED <<sock, reader_thr, conns>>
    /\ UNCHANGED <<static_vars, sock_fd, registered, variant, auto_reconnect, sequence_number, last_frame, data_wanted,
                   data_queue, reader_exit, caller, sends>>

\* disconnect(), asyncio: the reader task is cancelled and, with a writer,
\* the writer is closed (self.writer keeps the closed writer)
A_Disconnect ==
    /\ variant = "async"
    /\ caller.pc = "idle"
    /\ caller.ndisc = 0
    /\ workers' = Cancelled(reader_thr)
    /\ conns' = Closed(sock)
    /\ caller' = [StartOp("disconnect", "closing") EXCEPT !.ndisc = @ + 1]
    /\ UNCHANGED <<static_vars, sock_fd, registered, variant, auto_reconnect, sequence_number, last_frame, data_wanted,
                   data_queue, sock, reader_exit, reader_thr, sends, refused>>

\* await self.writer.wait_closed() returns
A_Closed ==
    /\ caller.pc = "closing"
    /\ caller' = Finish("disconnected")
    /\ UNCHANGED <<static_vars, sock_fd, registered, variant, auto_reconnect, sequence_number, last_frame, data_wanted,
                   data_queue, sock, reader_exit, reader_thr, workers, conns, sends, refused>>

\* await reconnect() called by the caller's task, up to its suspension in
\* open_connection: the reader task is cancelled
A_Reconnect ==
    /\ variant = "async"
    /\ caller.pc = "idle"
    /\ workers' = Cancelled(reader_thr)
    /\ caller' = StartOp("reconnect", "mrc_wait")
    /\ UNCHANGED <<static_vars, sock_fd, registered, variant, auto_reconnect, sequence_number, last_frame, data_wanted,
                   data_queue, sock, reader_exit, reader_thr, conns, sends, refused>>

\* open_connection returns in the caller's reconnect(): reader and writer are
\* replaced, a new reader task is created and, with data wanted, the last frame
\* is written; or it fails, the exception is logged and the call returns
A_ReconnectOpen ==
    /\ caller.pc = "mrc_wait"
    /\ caller' = Finish("reconnected")
    /\ \/ /\ FreeConn # 0
          /\ sock' = FreeConn
          /\ reader_thr' = FreeConn
          /\ workers' = [workers EXCEPT ![FreeConn] = NewWorker]
          /\ conns' = [conns EXCEPT ![FreeConn] =
                           [NewConn EXCEPT !.outbox = IF data_wanted /\ last_frame # <<>>
                                                      THEN <<last_frame>> ELSE <<>>]]
          /\ UNCHANGED refused
       \/ /\ refused' = TRUE
          /\ UNCHANGED <<sock, reader_thr, conns, workers>>
    /\ UNCHANGED <<static_vars, sock_fd, registered, variant, auto_reconnect, sequence_number, last_frame, data_wanted,
                   data_queue, reader_exit, sends>>

-----------------------------------------------------------------------------
(* The peer *)

\* the peer reads the next frame the client wrote on connection c and, when it
\* is a request, answers it
P_Respond(c) ==
    /\ conns[c].st = "open"
    /\ ~conns[c].peer_closed
    /\ conns[c].outbox # <<>>
    /\ conns[c].inbox = <<>>
    /\ LET req == Head(conns[c].outbox)
       IN  \E ex_code \in ExCodes :
             conns' = [conns EXCEPT ![c].outbox = Tail(@),
                                    ![c].inbox = IF IsRequestFrame(req)
                                                 THEN <<PeerResponse(req, ex_code)>>
                                                 ELSE <<>>]
    /\ UNCHANGED <<static_vars, sock_fd, registered, variant, auto_reconnect, sequence_number, last_frame, data_wanted,
                   data_queue, sock, reader_exit, reader_thr, workers, caller, sends, refused>>

\* the peer sends a frame nobody asked for
P_Unsolicited(c) ==
    /\ conns[c].st = "open"
    /\ ~conns[c].peer_closed
    /\ sends < MaxSends
    /\ conns[c].inbox = <<>>
    /\ \E f \in UnsolicitedFrames :
         conns' = [conns EXCEPT ![c].inbox = Append(@, f)]
    /\ sends' = sends + 1
    /\ UNCHANGED <<static_vars, sock_fd, registered, variant, auto_reconnect, sequence_number, last_frame, data_wanted,
                   data_queue, sock, reader_exit, reader_thr, workers, caller, refused>>

\* the peer closes connection c (what it sent before is read before the end of
\* the stream, so closing with a frame still unread is closing after the read)
P_Close(c) ==
    /\ conns[c].st = "open"
    /\ ~conns[c].peer_closed
    /\ conns[c].inbox = <<>>
    /\ conns' = [conns EXCEPT ![c].peer_closed = TRUE, ![c].outbox = <<>>]
    /\ UNCHANGED <<static_vars, sock_fd, registered, variant, auto_reconnect, sequence_number, last_frame, data_wanted,
                   data_queue, sock, reader_exit, reader_thr, workers, caller, sends, refused>>

\* the errors a read on a broken connection raises in the model: the peer has
\* reset the connection, or the connection has timed out (ETIMEDOUT)
ReadErrors == {"ConnectionResetError", "TimeoutError"}

\* connection c breaks: the next read on it raises an error
P_Fail(c) ==
    /\ conns[c].st = "open"
    /\ ~conns[c].peer_closed
    /\ conns[c].inbox = <<>>
    /\ \E e \in ReadErrors :
         conns' = [conns EXCEPT ![c].peer_closed = TRUE, ![c].outbox = <<>>, ![c].err = e]
    /\ UNCHANGED <<static_vars, sock_fd, registered, variant, auto_reconnect, sequence_number, last_frame, data_wanted,
                   data_queue, sock, reader_exit, reader_thr, workers, caller, sends, refused>>

\* the first bytes of a frame, as one read returns them when the rest of the
\* frame is late
ShortFrame == <<165, 1, 0>>

\* a frame of the peer reaches the session in pieces: the next read returns
\* its first three bytes only
P_Fragment(c) ==
    /\ conns[c].st = "open"
    /\ ~conns[c].peer_closed
    /\ sends < MaxSends
    /\ conns[c].inbox = <<>>
    /\ conns' = [conns EXCEPT ![c].inbox = Append(@, ShortFrame)]
    /\ sends' = sends + 1
    /\ UNCHANGED <<static_vars, sock_fd, registered, variant, auto_reconnect, sequence_number, last_frame, data_wanted,
                   data_queue, sock, reader_exit, reader_thr, workers, caller, refused>>

\* what a faulty data logger (or line) does to its answer: a wrong end byte, a
\* wrong checksum, and, with the checksum made right again, a wrong control
\* code, a wrong serial number and a wrong frame type
GarbleDamages ==
    {[op |-> "flip", at |-> 0, fix |-> FALSE],
     [op |-> "flip", at |-> -1, fix |-> FALSE],
     [op |-> "flip", at |-> 5, fix |-> TRUE],
     [op |-> "flip", at |-> 8, fix |-> TRUE],
     [op |-> "flip", at |-> 12, fix |-> TRUE]}

\* the peer answers the request it reads on connection c with a damaged frame
P_Garble(c) ==
    /\ conns[c].st = "open"
    /\ ~conns[c].peer_closed
    /\ conns[c].outbox # <<>>
    /\ conns[c].inbox = <<>>
    /\ IsRequestFrame(Head(conns[c].outbox))
    /\ \E ex_code \in ExCodes, dmg \in GarbleDamages :
         conns' = [conns EXCEPT
                       ![c].outbox = Tail(@),
                       ![c].inbox = <<Damaged(PeerResponse(Head(conns[c].outbox), ex_code), dmg)>>]
    /\ UNCHANGED <<static_vars, sock_fd, registered, variant, auto_reconnect, sequence_number, last_frame, data_wanted,
                   data_queue, sock, reader_exit, reader_thr, workers, caller, sends, refused>>

-----------------------------------------------------------------------------
(* Specifications *)

Init == CodecIdle /\ DecoderIdle /\ SessionInit /\ mb_request_frame = ReqPdu

\* the sessions whose request calls read address 4500
ExceptionInit == CodecIdle /\ DecoderIdle /\ SessionInit /\ mb_request_frame = ReqPduHigh

Next ==
    \/ T_Start \/ T_Alive \/ T_Send \/ T_SetWanted \/ T_SetLast \/ T_Get
    \/ T_Timeout \/ T_Clear \/ T_Disconnect \/ T_Join
    \/ A_Connect \/ A_Start \/ A_Get \/ A_TimeoutFires \/ A_TimeoutRaised
    \/ A_Disconnect \/ A_Closed
    \/ Return
    \/ \E w \in ConnIds :
          \/ R_Register(w) \/ R_Poll(w) \/ R_Recv(w) \/ R_ZeroRead(w)
          \/ R_ReconnectOpen(w) \/ R_AfterReconnect(w)
          \/ R_Frame(w) \/ R_Route(w) \/ R_PutBlocked(w)
          \/ K_Read(w) \/ K_ReconnectStart(w) \/ K_ReconnectOpen(w)
    \/ \E c \in ConnIds : P_Respond(c) \/ P_Unsolicited(c) \/ P_Close(c)

Spec == Init /\ [][Next]_vars
ExceptionSpec == ExceptionInit /\ [][Next]_vars

\* the steps of a request call between its start and its end: the statements
\* of the caller thread, the expiry of socket_timeout on the queue get, and
\* the steps of the calling task
CallerStep ==
    \/ T_Alive \/ T_Send \/ T_SetWanted \/ T_SetLast \/ T_Get \/ T_Timeout \/ T_Clear
    \/ A_Get \/ A_TimeoutFires \/ A_TimeoutRaised

\* the caller is scheduled: a step of the call that stays possible is taken
\* (sendall and the queue get run under socket_timeout, wait_for sets a timer,
\* the event loop runs every ready task); a frame is far smaller than the send
\* buffer, so a write does not wait for the peer
FairSpec == Init /\ [][Next]_vars /\ WF_vars(CallerStep)

\* the sessions whose caller may also call reconnect itself
ManualNext ==
    \/ T_Start \/ T_Alive \/ T_Send \/ T_SetWanted \/ T_SetLast \/ T_Get
    \/ T_Timeout \/ T_Clear \/ T_Disconnect \/ T_Join
    \/ T_Reconnect \/ T_ReconnectOpen
    \/ A_Connect \/ A_Start \/ A_Get \/ A_TimeoutFires \/ A_TimeoutRaised
    \/ A_Disconnect \/ A_Closed
    \/ A_Reconnect \/ A_ReconnectOpen
    \/ Return
    \/ \E w \in ConnIds :
          \/ R_Register(w) \/ R_Poll(w) \/ R_Recv(w) \/ R_ZeroRead(w)
          \/ R_ReconnectOpen(w) \/ R_AfterReconnect(w)
          \/ R_Frame(w) \/ R_Route(w) \/ R_PutBlocked(w)
          \/ K_Read(w) \/ K_ReconnectStart(w) \/ K_ReconnectOpen(w)
    \/ \E c \in ConnIds : P_Respond(c) \/ P_Unsolicited(c) \/ P_Close(c)

ManualSpec == Init /\ [][ManualNext]_vars

\* the sessions whose transport may also deliver a frame in pieces or break
\* with an error
FragmentNext ==
    \/ T_Start \/ T_Alive \/ T_Send \/ T_SetWanted \/ T_SetLast \/ T_Get
    \/ T_Timeout \/ T_Clear \/ T_Disconnect \/ T_Join
    \/ A_Connect \/ A_Start \/ A_Get \/ A_TimeoutFires \/ A_TimeoutRaised
    \/ A_Disconnect \/ A_Closed
    \/ Return
    \/ \E w \in ConnIds :
          \/ R_Register(w) \/ R_Poll(w) \/ R_Recv(w) \/ R_ZeroRead(w)
          \/ R_ReconnectOpen(w) \/ R_AfterReconnect(w)
          \/ R_Frame(w) \/ R_Route(w) \/ R_PutBlocked(w)
          \/ K_Read(w) \/ K_ReconnectStart(w) \/ K_ReconnectOpen(w)
    \/ \E c \in ConnIds : P_Respond(c) \/ P_Unsolicited(c) \/ P_Close(c) \/ P_Fragment(c)
                          \/ P_Fail(c)

FragmentSpec == Init /\ [][FragmentNext]_vars

\* the sessions whose data logger may also answer with a damaged frame
GarbleNext ==
    \/ T_Start \/ T_Alive \/ T_Send \/ T_SetWanted \/ T_SetLast \/ T_Get
    \/ T_Timeout \/ T_Clear \/ T_Disconnect \/ T_Join
    \/ A_Connect \/ A_Start \/ A_Get \/ A_TimeoutFires \/ A_TimeoutRaised
    \/ A_Disconnect \/ A_Closed
    \/ Return
    \/ \E w \in ConnIds :
          \/ R_Register(w) \/ R_Poll(w) \/ R_Recv(w) \/ R_ZeroRead(w)
          \/ R_ReconnectOpen(w) \/ R_AfterReconnect(w)
          \/ R_Frame(w) \/ R_Route(w) \/ R_PutBlocked(w)
          \/ K_Read(w) \/ K_ReconnectStart(w) \/ K_ReconnectOpen(w)
    \/ \E c \in ConnIds : P_Respond(c) \/ P_Unsolicited(c) \/ P_Close(c) \/ P_Garble(c)

GarbleSpec == Init /\ [][GarbleNext]_vars

\* an asyncio session without auto-reconnect on which two tasks call requests
ConcurrentInit ==
    /\ CodecIdle /\ DecoderIdle /\ SessionInit
    /\ variant = "async" /\ ~kwargs.auto_reconnect /\ mb_request_frame = ReqPdu

ConcurrentNext ==
    \/ A_Connect \/ A_Start \/ A_Get \/ A_TimeoutFires \/ A_TimeoutRaised \/ Return
    \/ B_Start \/ B_Get \/ B_TimeoutFires \/ B_TimeoutRaised \/ B_Return
    \/ \E w \in ConnIds : K_Read(w)
    \/ \E c \in ConnIds : P_Respond(c) \/ P_Close(c)

ConcurrentSpec == ConcurrentInit /\ [][ConcurrentNext]_vars

DecoderNext == DecoderDecode \/ DecoderParse
DecoderSpec == DecoderInit /\ [][DecoderNext]_vars

CodecNext == CodecEncode \/ CodecDecode

CodecSpec == CodecInit /\ [][CodecNext]_vars

-----------------------------------------------------------------------------
(* Properties *)

V5FrameErrors ==
    {"V5FrameError: invalid start or end values",
     "V5FrameError: invalid V5 checksum",
     "V5FrameError: invalid sequence number",
     "V5FrameError: incorrect data logger serial number",
     "V5FrameError: incorrect control code",
     "V5FrameError: invalid frametype",
     "V5FrameError: V5 Modbus EXCEPTION",
     "V5FrameError: no valid Modbus RTU frame"}

\* a request call has returned or raised
RequestDone == caller.pc = "done" /\ caller.op = "request"

\* the frame was written and the call has not got anything from the queue yet
InFlight == caller.op = "request" /\ caller.pc \in {"set", "last", "wait"}

\* the step in which worker w drops the frame it read as one nobody waits for,
\* although it is the response to the request in flight
DiscardsResponse(w) ==
    /\ variant = "thread"
    /\ workers[w].pc = "route"
    /\ ~data_wanted
    /\ workers'[w].pc = "poll"
    /\ InFlight
    /\ data_queue = <<>>
    /\ \E ex_code \in ExCodes : workers[w].data = PeerResponse(caller.frame, ex_code)
    /\ Decoded(workers[w].data).status = "ok"

\* C1: a response that starts with 0xA5, echoes the sequence number of the
\* request in flight and passes every decoder check is never dropped by the
\* receive loop as a frame nobody waits for.
C1_ResponseNeverDiscarded == [][\A w \in ConnIds : ~DiscardsResponse(w)]_vars

\* the step in which worker w finishes handling an end of stream it read while
\* the request with frame workers[w].zr was waiting, that request still waiting
ReconnectDone(w) ==
    /\ workers[w].zr # <<>>
    /\ Waiting
    /\ caller.frame = workers[w].zr
    /\ workers[w].pc = IF variant = "thread" THEN "rc_after" ELSE "rc_wait"
    /\ workers'[w].pc \in {"done", "crashed"}

\* what the step of ReconnectDone(w) must write
ResubmittedOnce(w) ==
    IF variant = "thread"
    THEN IF sock # 0
         THEN conns[sock].peer_closed
              \/ conns' = [conns EXCEPT ![sock].outbox = Append(@, workers[w].zr)]
         ELSE conns' = conns
    ELSE IF sock' # 0
         THEN conns'[sock'].outbox = <<workers[w].zr>>
         ELSE conns' = conns

\* C2: with auto-reconnect, an end of stream read while a request is waiting
\* leads to exactly one write of that request's frame on the new socket when
\* the reconnect succeeds, and to no write when it fails (stated for the
\* requests that are still waiting when the reconnect is over).
C2_ExactlyOneResubmission ==
    [][\A w \in ConnIds : (auto_reconnect /\ ReconnectDone(w)) => ResubmittedOnce(w)]_vars

\* a reconnect triggered by an end of stream is between closing the old socket
\* and the return of the connection attempt
ReconnectInProgress ==
    \E w \in ConnIds : workers[w].pc \in {"rc_open", "rc_start", "rc_wait"}

\* the session was connected at least once and the caller never disconnected it
EverConnected == conns[1].st # "unborn" /\ caller.ndisc = 0

C4_ProtocolFrameNeverHandedOver ==
    /\ \A i \in 1..Len(data_queue) : ~IsProtocolFrame(data_queue[i])
    /\ ~IsProtocolFrame(caller.rframe)

\* the step in which worker w takes the protocol frame f it read through the
\* code of the loop
HandlesProtocolFrame(w, f) ==
    /\ IsProtocolFrame(f)
    /\ IF variant = "thread"
       THEN workers[w].pc = "frame" /\ workers[w].data = f /\ workers'[w].pc # "frame"
       ELSE /\ workers[w].pc = "read" /\ conns[w].inbox # <<>> /\ Head(conns[w].inbox) = f
            /\ conns'[w].st = "open" /\ conns'[w].inbox = <<>>

\* exactly one frame more is written to the socket, with the response code of
\* f's control code and f's sequence byte
TimeSyncReplied(f) ==
    /\ sock # 0
    /\ Len(conns'[sock].outbox) = Len(conns[sock].outbox) + 1
    /\ LET r == conns'[sock].outbox[Len(conns'[sock].outbox)]
       IN  Len(r) >= 6 /\ r[5] = _get_response_code(f[5]) /\ r[6] = f[6]

\* C5: every frame with control code 0x41, 0x42, 0x43, 0x47 or 0x48 that the
\* receive loop reads is answered by exactly one time-sync reply on the socket.
C5_OneTimeSyncReply ==
    [][\A w \in ConnIds : \A f \in UnsolicitedFrames :
          HandlesProtocolFrame(w, f) => TimeSyncReplied(f)]_vars

C7_RoundTrip == c_pc = "decoded" => c_res = Returns(c_pdu)

\* C7 (amended): the decoder rejects the encoder's frame with V5FrameError
\* (its control code is 0x45, not the response code 0x15); applied to that frame
\* with the control code set to 0x15 and the checksum recomputed it returns
\* one 0x00 byte followed by the original PDU (at least 5 bytes in all).
C7_RoundTripThroughPeer ==
    c_pc = "decoded" =>
        /\ c_res = Raises("V5FrameError: incorrect control code")
        /\ c_patched = IF Len(c_pdu) + 1 >= 5 THEN Returns(<<0>> \o c_pdu)
                       ELSE Raises("V5FrameError: no valid Modbus RTU frame")

\* the encoder ran with the counter at 255 (the next number wraps to 0) and the
\* decoder returned a PDU from the rewritten frame
C7_Witness ==
    /\ c_pc = "decoded" /\ c_seq0 = 255 /\ c_seq = 0
    /\ Len(c_pdu) >= 4 /\ c_patched.ok /\ ~c_res.ok

\* C8: a request call that ended by timeout leaves the outstanding-request flag
\* clear.
C8_FlagClearAfterTimeout ==
    (RequestDone /\ caller.res.status \in {"queue.Empty", "TimeoutError"}) => ~data_wanted

\* the step in which worker w ends the handling of a lost connection without a
\* replacement while the request that was waiting at the loss still waits
LostForGood(w) ==
    /\ caller.op = "request" /\ caller.pc = "wait"
    /\ IF variant = "thread"
       THEN /\ workers[w].pc = "rc_after" /\ workers[w].zr = caller.frame
            /\ sock = 0 /\ workers'[w].pc = "done"
       ELSE \/ workers[w].pc = "read" /\ workers'[w].pc = "done"
            \/ /\ workers[w].pc = "rc_wait" /\ workers[w].zr = caller.frame
               /\ workers'[w].pc = "done" /\ sock' = 0

\* C9: when the connection is lost while a request waits and no replacement is
\* obtained, the receive loop puts the empty frame in the hand-off queue.
C9_SentinelOnLoss ==
    [][\A w \in ConnIds : LostForGood(w) => data_queue' = <<<<>>>>]_vars

\* the step in which a request call passes its entry while the receive loop is
\* not running
EntersWithoutLoop ==
    /\ ~IsAlive(reader_thr)
    /\ caller' # caller
    /\ IF variant = "thread" THEN caller.pc = "alive"
       ELSE caller.pc = "idle" /\ caller'.op = "request"

\* C10: a request call made while the receive loop is not running fails with
\* NoSocketAvailableError and writes nothing.
C10_NoLoopNoSocket ==
    [][EntersWithoutLoop =>
          (caller'.pc = "done" /\ caller'.res.status = "NoSocketAvailableError"
           /\ conns' = conns)]_vars

\* a step of a receive loop or reconnect (not of the caller) that opens a
\* connection or starts a reader
OpensOrStarts ==
    /\ caller' = caller
    /\ \E c \in ConnIds : \/ conns[c].st = "unborn" /\ conns'[c].st # "unborn"
                          \/ workers[c].pc = "unborn" /\ workers'[c].pc # "unborn"

\* C11: once disconnect() has been called, the session opens no new connection
\* and starts no new reader, whatever the receive loop was doing at the call
\* and even with auto-reconnect enabled.
C11_DisconnectIsFinal == [][caller.ndisc > 0 => ~OpensOrStarts]_vars

\* the step encodes a request frame
EncodesFrame == caller'.nreq = caller.nreq + 1

\* what _get_next_sequence_number returns, for every value of the counter and
\* every value the random draw can give
SequenceLaw ==
    /\ \A rnd \in 1..254 : _get_next_sequence_number(None, rnd) \in 1..254
    /\ \A cur \in 0..254 : \A rnd \in 1..254 : _get_next_sequence_number(cur, rnd) = cur + 1
    /\ \A rnd \in 1..254 : _get_next_sequence_number(255, rnd) = 0

\* C16: the first sequence number of a session is in 1..254 and every later one
\* is the previous one plus one modulo 256 (255 wraps to 0); the counter
\* advances in exactly the steps that encode a request frame, which carries
\* the new value in byte 5, and no other step (receiving, reconnect,
\* resubmission, disconnect) changes it.
C16_SequenceCounter ==
    [][/\ SequenceLaw
       /\ EncodesFrame =>
            /\ sequence_number = None => sequence_number' \in 1..254
            /\ sequence_number # None => sequence_number' = (sequence_number + 1) % 256
            /\ caller'.frame[6] = sequence_number'
       /\ ~EncodesFrame => sequence_number' = sequence_number]_vars

\* the second request of a session, sent after a reconnect, was answered
C16_Witness ==
    /\ sequence_number = 255
    /\ conns[2].st = "open"
    /\ RequestDone
    /\ caller.res.status = "ok"
    /\ caller.res.frame[6] = 255

\* C18: disconnect() never raises: whatever state the session is in when it is
\* called, the call completes normally.
C18_DisconnectNeverRaises ==
    (caller.op = "disconnect" /\ caller.pc = "done") => caller.res.status = "disconnected"

\* C20: a session constructed with a socket of the caller has auto-reconnect
\* disabled whatever was passed for auto_reconnect, and never opens a
\* connection of its own (connection 1 is the socket passed).
C20_SuppliedSocketNoReconnect ==
    kwargs.socket => /\ ~auto_reconnect
                     /\ \A c \in ConnIds \ {1} : conns[c].st = "unborn"

\* a session given a socket together with auto_reconnect=True has lost its
\* connection while a request was waiting: its receive loop has ended and the
\* request has failed
C20_Witness ==
    /\ kwargs.socket /\ kwargs.auto_reconnect
    /\ caller.ndisc = 0
    /\ conns[1].st = "closed"
    /\ workers[1].pc = "done"
    /\ sock = 0
    /\ RequestDone
    /\ caller.res.status = "NoSocketAvailableError"

\* the Modbus exception codes: 1..8, 10 and 11
KnownExceptionCodes == (1..8) \cup {10, 11}

\* what the decoder makes of a response that passes the envelope checks and
\* carries a Modbus frame shorter than 5 bytes: for every first byte 0..255
\* with one more byte, and for the empty frame
ExceptionLaw ==
    \A seqno \in {254, 255} :
        /\ \A first \in 0..255 :
             LET r == _v5_frame_decoder(
                          v5_frame_response_encoder(<<first, 0>>, seqno, (seqno + 1) % 256),
                          seqno, FALSE)
             IN  /\ ~r.ok
                 /\ first \in KnownExceptionCodes
                        => r.err = "V5FrameError: V5 Modbus EXCEPTION" /\ r.code = first
                 /\ first \notin KnownExceptionCodes
                        => r.err = "V5FrameError: no valid Modbus RTU frame"
        /\ _v5_frame_decoder(v5_frame_response_encoder(<<>>, seqno, (seqno + 1) % 256),
                             seqno, FALSE)
               = Raises("V5FrameError: no valid Modbus RTU frame")

\* frame is the data logger's answer to the caller's request, an exception code
IsExceptionAnswer(frame) ==
    caller.frame # <<>> /\ \E ex_code \in ExCodes : frame = PeerResponse(caller.frame, ex_code)

\* the frame worker w is about to route: the one it received (threaded), the
\* next one of its stream (asyncio)
FrameAtHand(w) ==
    IF variant = "thread" THEN workers[w].data
    ELSE IF conns[w].inbox # <<>> THEN Head(conns[w].inbox) ELSE <<>>

\* worker w hands the data logger's exception answer to the waiting call
HandsOverException(w) ==
    /\ workers'[w] # workers[w]
    /\ data_queue = <<>> /\ data_queue' # <<>>
    /\ IsExceptionAnswer(FrameAtHand(w))

\* the call takes the data logger's exception answer from the queue, or decodes it
TakesException ==
    /\ caller' # caller
    /\ \/ caller.pc = "wait" /\ data_queue # <<>> /\ IsExceptionAnswer(Head(data_queue))
       \/ caller.pc = "got" /\ IsExceptionAnswer(caller.rframe)

\* C13: a response that passes the envelope checks with a Modbus frame shorter
\* than 5 bytes whose first byte is a known exception code fails the request
\* call with the V5FrameError that names this exception, and not with the
\* generic error of an empty frame or an unknown first byte; the receive loop
\* that hands the response over goes on running and the call that gets it
\* ends.
C13_ExceptionIdentified ==
    /\ [](/\ ExceptionLaw
          /\ RequestDone /\ IsExceptionAnswer(caller.res.frame)
               => /\ caller.res.status = "V5FrameError: V5 Modbus EXCEPTION"
                  /\ caller.res.code = caller.res.frame[26])
    /\ [][/\ \A w \in ConnIds : HandsOverException(w) => workers'[w].pc \in {"poll", "read"}
          /\ TakesException => caller'.pc \in {"got", "done"}
          /\ TakesException /\ caller.pc = "got" => caller'.pc = "done"]_vars

\* a request for address 4500 has failed with the exception the data logger
\* answered, and the receive loop is running
C13_Witness ==
    /\ RequestDone
    /\ caller.res.status = "V5FrameError: V5 Modbus EXCEPTION"
    /\ caller.res.code = 2
    /\ IsExceptionAnswer(caller.res.frame)
    /\ IsAlive(reader_thr)

-----------------------------------------------------------------------------
(* C15 *)

\* the eight conditions on a frame handed to the decoder while the session's
\* sequence number is seqno
HasByte(frame, i) == i + 1 <= Len(frame)
AllChecksHold(frame, seqno) ==
    /\ HasByte(frame, 0) /\ frame[1] = 165
    /\ frame[Len(frame)] = 21
    /\ Len(frame) >= 2 /\ frame[Len(frame) - 1] = SumBytes(Slice(frame, 1, -2)) % 256
    /\ HasByte(frame, 5) /\ frame[6] = seqno
    /\ HasByte(frame, 10) /\ Slice(frame, 7, 11) = v5_serial
    /\ frame[5] = 21
    /\ HasByte(frame, 11) /\ frame[12] = 2
    /\ Len(Slice(frame, 25, -2)) >= 5

\* C15: _v5_frame_decoder returns a PDU only when start and end byte, checksum,
\* echoed sequence number, logger serial, control code 0x15 and frame type 0x02
\* are right and the extracted PDU has at least 5 bytes, and it raises
\* V5FrameError when any of them fails.
C15_DecoderChecks ==
    d_pc # "init" =>
        /\ d_res.ok => AllChecksHold(d_frame, d_seq) /\ d_res.pdu = Slice(d_frame, 25, -2)
        /\ ~AllChecksHold(d_frame, d_seq) => ~d_res.ok /\ d_res.err \in V5FrameErrors

-----------------------------------------------------------------------------
(* C17 *)

\* the sum of the bytes between the start byte and the checksum byte, modulo 256
SumBetween(frame) == SumBytes(SubSeq(frame, 2, Len(frame) - 2)) % 256
ChecksumByte(frame) == frame[Len(frame) - 1]

\* the decoder reaches its checksum check
ReachesChecksumCheck(frame) ==
    Len(frame) >= 3 /\ frame[1] = v5_start /\ frame[Len(frame)] = v5_end

-----------------------------------------------------------------------------
(* C19 *)

\* 13 plus the payload length the frame declares in bytes 1..2
DeclaredLen(frame) == 13 + frame[2] + 256 * frame[3]

\* the frame up to the boundary its declared payload length gives
AtDeclaredBoundary(frame) == SubSeq(frame, 1, DeclaredLen(frame))

\* the buffer holds more than the frame it declares
LongerThanDeclared(frame) == Len(frame) >= 3 /\ Len(frame) > DeclaredLen(frame)

\* C19: with v5_error_correction enabled a frame whose physical length differs
\* from 13 plus its declared payload length is decoded at the boundary the
\* declared length gives (end marker, checksum and PDU end at the declared
\* positions); with it disabled the physical end of the buffer is used.
C19_ErrorCorrection ==
    d_pc # "init" /\ LongerThanDeclared(d_frame) =>
        IF d_ec
        THEN d_res = _v5_frame_decoder(AtDeclaredBoundary(d_frame), d_seq, d_ec)
        ELSE /\ d_res.ok => d_res.pdu = Slice(d_frame, 25, -2)
             /\ d_frame[Len(d_frame)] # v5_end
                    => d_res.err = "V5FrameError: invalid start or end values"

-----------------------------------------------------------------------------
(* C14 *)

EndsWithZeroes(pdu) == Len(pdu) >= 2 /\ SubSeq(pdu, Len(pdu) - 1, Len(pdu)) = <<0, 0>>
WithoutLastTwo(pdu) == SubSeq(pdu, 1, Len(pdu) - 2)
\* the last two bytes of pdu are the Modbus CRC of the bytes before them
CrcValid(pdu) ==
    Len(pdu) >= 2 /\ SubSeq(pdu, Len(pdu) - 1, Len(pdu)) = get_crc(WithoutLastTwo(pdu))

\* the first parse of the response PDU in _get_modbus_response
FirstParse == parse_response_adu(d_res.pdu, mb_request_frame)

\* C14: when parsing the response PDU fails with a length error,
\* _get_modbus_response accepts the PDU without its last two bytes if and only
\* if the PDU ends with two zero bytes and the Modbus CRC of the shortened PDU
\* is valid; in every other case the original parsing error is raised unchanged.
C14_DoubleCrc ==
    d_pc = "parsed" =>
        IF /\ FirstParse.err = "struct.error"
           /\ EndsWithZeroes(d_res.pdu)
           /\ CrcValid(WithoutLastTwo(d_res.pdu))
        THEN d_parsed = parse_response_adu(WithoutLastTwo(d_res.pdu), mb_request_frame)
        ELSE d_parsed = FirstParse

\* the answer with two CRCs fails the first parse with a length error and is
\* parsed without its last two bytes to the four registers
C14_Witness ==
    /\ d_pc = "parsed"
    /\ d_res.pdu = RespPduDouble
    /\ FirstParse.err = "struct.error"
    /\ d_parsed.ok
    /\ d_parsed.pdu = Registers(4, RegisterValue)

-----------------------------------------------------------------------------
(* C12 *)

\* call c has written its request frame and has not finished
Outstanding(c) == c.op = "request" /\ c.pc \in {"wait", "timedout"}

\* the response frame whose PDU call c returns echoes the sequence byte of c's
\* frame
AnswersOwnFrame(c) ==
    c.op = "request" /\ c.pc = "done" /\ c.res.status = "ok"
        => c.res.frame[6] = c.frame[6]

\* C12: at most one request is outstanding on a session at any time: a request
\* call started while another call is still waiting for its response is delayed
\* or rejected, so two request frames are never in flight together and a
\* response is never handed to a caller other than the one whose frame it
\* answers.
C12_OneOutstanding ==
    /\ ~(Outstanding(caller) /\ Outstanding(caller2))
    /\ AnswersOwnFrame(caller)
    /\ AnswersOwnFrame(caller2)

-----------------------------------------------------------------------------
(* C21 *)

\* the step in which the connection attempt of reconnect(), run by task w, fails
ReconnectFails(w) ==
    /\ variant = "async"
    /\ workers[w].pc = "rc_wait"
    /\ workers'[w].pc # "rc_wait"
    /\ conns' = conns

\* C21: PySolarmanV5Async.reconnect() raises NoSocketAvailableError when the
\* connection cannot be re-established (the call ends by an exception, not by
\* a normal return).
C21_ReconnectRaises ==
    [][\A w \in ConnIds : ReconnectFails(w) => workers'[w].pc = "crashed"]_vars

-----------------------------------------------------------------------------
(* C22 *)

\* a frame with a wrong start byte, or with a sequence byte that is not the
\* current sequence number
WrongStartOrSeq(f) ==
    f # <<>> /\ (f[1] # v5_start \/ (Len(f) >= 6 /\ f[6] # sequence_number))

\* the step in which the receive loop w takes such a frame through its checks
HandlesInvalidFrame(w) ==
    IF variant = "thread"
    THEN /\ workers[w].pc = "frame" /\ WrongStartOrSeq(workers[w].data)
         /\ workers'[w] # workers[w]
    ELSE /\ variant = "async"
         /\ workers[w].pc = "read" /\ conns[w].inbox # <<>>
         /\ WrongStartOrSeq(Head(conns[w].inbox))
         /\ conns'[w].st = "open" /\ conns'[w].inbox # conns[w].inbox

\* the loop is at its top again with no frame at hand, as before it read
BackAtTop(w) ==
    /\ workers'[w].pc = (IF variant = "thread" THEN "poll" ELSE "read")
    /\ workers'[w].data = <<>>
    /\ \A v \in ConnIds \ {w} : workers'[v] = workers[v]

\* C22: a received frame with a wrong start byte or with a sequence byte
\* different from the current sequence number is discarded with no effect:
\* nothing is written to the socket, the hand-off queue and the
\* outstanding-request flag are unchanged, the receive loop keeps running, and
\* the session is left as if the frame had not arrived.
C22_InvalidFrameNoEffect ==
    [][\A w \in ConnIds : HandlesInvalidFrame(w) =>
          /\ \A c \in ConnIds : conns'[c].outbox = conns[c].outbox
          /\ BackAtTop(w)
          /\ UNCHANGED <<data_queue, data_wanted, sequence_number, last_frame, sock,
                         reader_exit, reader_thr, sock_fd, registered, caller,
                         auto_reconnect>>]_vars

\* threaded session: the one unsolicited frame the peer sent was read, the
\* receive loop is alive at its top, and the request was answered
C22_Witness ==
    /\ variant = "thread"
    /\ sends = 1
    /\ conns[1].st = "open" /\ conns[1].inbox = <<>>
    /\ workers[1].pc = "poll" /\ workers[1].data = <<>>
    /\ RequestDone /\ caller.nreq = 1 /\ caller.res.status = "ok"

-----------------------------------------------------------------------------
(* C24 *)

\* the step of a request call that writes the request frame to the socket
WritesRequestFrame ==
    /\ caller' # caller
    /\ caller'.op = "request"
    /\ sock # 0
    /\ conns'[sock].outbox # conns[sock].outbox

\* C24: in every request call the outstanding-request flag is set before the
\* request frame is written to the socket, in both variants (threaded: the
\* flag is set when the step that writes starts; asyncio: the step that writes
\* has set it).
C24_FlagBeforeWrite ==
    [][WritesRequestFrame => IF variant = "thread" THEN data_wanted ELSE data_wanted']_vars

-----------------------------------------------------------------------------
(* C25 *)

\* f is a response frame that echoes the sequence byte of the request frame req
AnswerTo(f, req) ==
    Len(f) >= 6 /\ f[1] = v5_start /\ f[5] = _get_response_code(CONTROL_CODE_REQUEST)
        /\ f[6] = req[6]

TimedOut == RequestDone /\ caller.res.status \in {"queue.Empty", "TimeoutError"}

\* C25: a response that arrives after its request has timed out is discarded
\* by the receive loop: it is never left in the hand-off queue (and so never
\* returned to, or raised as an error in, a later request call).
C25_LateResponseDiscarded ==
    TimedOut => \A i \in 1..Len(data_queue) : ~AnswerTo(data_queue[i], caller.frame)

-----------------------------------------------------------------------------
(* C26 *)

\* the frame the receive loop w is about to deliver: it passed the loop's checks
\* and the outstanding-request flag is set
Delivery(w) ==
    IF variant = "thread"
    THEN IF workers[w].pc = "route" /\ data_wanted THEN workers[w].data ELSE <<>>
    ELSE IF /\ variant = "async" /\ workers[w].pc = "read" /\ data_wanted
            /\ conns[w].inbox # <<>>
            /\ _received_frame_is_valid(Head(conns[w].inbox), sequence_number) = "valid"
         THEN Head(conns[w].inbox) ELSE <<>>

\* the loop w takes its step
LoopSteps(w) ==
    IF variant = "thread" THEN workers'[w] # workers[w]
    ELSE conns'[w].st = "open" /\ conns'[w].inbox # conns[w].inbox

\* C26: when the receive loop delivers a response it never blocks on the
\* one-slot hand-off queue: a stale unclaimed value in the slot is replaced by
\* the new frame, and the outstanding-request flag is cleared by the delivery,
\* in both variants.
C26_DeliveryNeverBlocks ==
    [][\A w \in ConnIds : (Delivery(w) # <<>> /\ LoopSteps(w)) =>
          /\ workers'[w].pc # "put"
          /\ data_queue' = <<Delivery(w)>>
          /\ ~data_wanted']_vars

-----------------------------------------------------------------------------
(* C28 *)

\* the step in which the reconnect path of loop w, which read the end of stream
\* while no request was waiting, ends while the caller is between calls
ReconnectEndsIdle(w) ==
    /\ workers[w].pc = (IF variant = "thread" THEN "rc_after" ELSE "rc_wait")
    /\ workers'[w].pc \in {"done", "crashed"}
    /\ workers[w].zr = <<>>
    /\ caller.pc = "idle"

\* C28: when the connection is lost while no request call is in progress, the
\* reconnect path writes nothing to the new socket (also after an earlier
\* request ended by timeout or error).
C28_IdleReconnectWritesNothing ==
    [][\A w \in ConnIds : ReconnectEndsIdle(w) =>
          \A c \in ConnIds : conns'[c].outbox = <<>> \/ conns'[c].outbox = conns[c].outbox]_vars

-----------------------------------------------------------------------------
(* C30 *)

\* C30: whenever no request call is in progress on a session, the
\* outstanding-request flag is clear and the hand-off queue is empty (after a
\* successful return, a timeout, a NoSocketAvailableError, a V5FrameError and
\* a disconnect alike).
C30_QuiescentBetweenCalls ==
    caller.pc = "idle" => ~data_wanted /\ data_queue = <<>>

-----------------------------------------------------------------------------
(* C29 *)

\* the step in which the reconnect path of loop w resubmits on the new socket
\* while a request call is waiting
Resubmits(w) ==
    /\ Waiting
    /\ IF variant = "thread"
       THEN /\ workers[w].pc = "rc_after" /\ workers[w].wanted
            /\ sock # 0 /\ conns[sock].st = "open" /\ ~conns[sock].peer_closed
            /\ workers'[w].pc = "done"
       ELSE /\ workers[w].pc = "rc_wait"
            /\ workers'[w].pc = "done"
            /\ sock' # sock /\ sock' # 0

\* what that step has written to the new socket
ResubmittedFrames ==
    IF variant = "thread"
    THEN SubSeq(conns'[sock].outbox, Len(conns[sock].outbox) + 1, Len(conns'[sock].outbox))
    ELSE conns'[sock'].outbox

\* C29: the frame resubmitted after a reconnect is byte-identical to the frame
\* written for the request that is currently outstanding (never an earlier
\* request's frame and never an empty frame), in every interleaving of the
\* request path with the receive loop, and resubmitting it does not advance
\* the sequence counter, so the response to it passes the sequence check.
C29_ResubmittedFrameIsCurrent ==
    [][\A w \in ConnIds : Resubmits(w) =>
          /\ ResubmittedFrames = <<caller.frame>>
          /\ sequence_number' = sequence_number
          /\ caller.frame[6] = sequence_number]_vars

-----------------------------------------------------------------------------
(* C27 *)

\* a request call is waiting for the response to a frame it wrote to a
\* connection that was lost since; the session has a new connection
WaitsAcrossReconnect ==
    /\ Waiting
    /\ caller.pc = "wait"
    /\ caller.conn # 0 /\ sock # 0 /\ sock # caller.conn
    /\ conns[sock].st = "open"

\* the step in which the receive loop of the new connection takes the answer to
\* the resubmitted frame through its hand-over
HandsOverAnswer(w) ==
    /\ WaitsAcrossReconnect
    /\ w = sock
    /\ IF variant = "thread"
       THEN /\ workers[w].pc = "route" /\ AnswerTo(workers[w].data, caller.frame)
            /\ workers'[w] # workers[w]
       ELSE /\ workers[w].pc = "read" /\ conns[w].inbox # <<>>
            /\ AnswerTo(Head(conns[w].inbox), caller.frame)
            /\ conns'[w].st = "open" /\ conns'[w].inbox # conns[w].inbox

AnswerAtHand(w) == IF variant = "thread" THEN workers[w].data ELSE Head(conns[w].inbox)

\* the step in which the waiting call takes the item in the queue
TakesItem == caller.pc = "wait" /\ caller'.pc # "wait" /\ data_queue # <<>>

\* C27: if the connection is lost while a request is outstanding, auto-reconnect
\* succeeds and the peer answers the resubmitted frame on the new connection
\* before the timeout, then the original request call returns that response
\* without the caller retrying: the new receive loop puts the answer in the
\* hand-off queue, the waiting call takes it, and the call ends with its PDU.
C27_ResubmittedAnswerReturned ==
    /\ [][\A w \in ConnIds : HandsOverAnswer(w) =>
             /\ data_queue' = <<AnswerAtHand(w)>>
             /\ caller' = caller]_vars
    /\ [][(WaitsAcrossReconnect /\ TakesItem /\ AnswerTo(Head(data_queue), caller.frame)) =>
             /\ caller'.nreq = caller.nreq
             /\ caller'.pc = "done" => caller'.res.status = "ok"
             /\ caller'.pc # "done" => caller'.pc = "got" /\ caller'.rframe = Head(data_queue)]_vars
    /\ [](RequestDone /\ AnswerTo(caller.res.frame, caller.frame)
             => /\ caller.res.status = "ok"
                /\ caller.res.pdu = Slice(caller.res.frame, 25, -2))


-----------------------------------------------------------------------------
(* C23 *)

\* the first request call of a session has ended, and all that happened to its
\* connection is in the state: the frame was written on the first connection,
\* the data logger has not answered it (it is still the one frame the data
\* logger has to read), has not closed, and nobody disconnected or reconnected
Unanswered ==
    /\ RequestDone /\ caller.nreq = 1 /\ caller.ndisc = 0 /\ caller.conn = 1
    /\ conns[1].st = "open" /\ ~conns[1].peer_closed
    /\ conns[1].outbox = <<caller.frame>>
    /\ \A c \in ConnIds \ {1} : conns[c].st = "unborn"

\* what the data logger sent on its own was no response frame: the call took
\* nothing from the queue, or took a protocol frame
NoResponseTaken == caller.res.frame = <<>> \/ IsProtocolFrame(caller.res.frame)

\* C23: the two variants end a request call in the same way for the same
\* events: a call the data logger sent no response to ends, in the threaded as
\* in the asyncio variant, with TimeoutError.
C23_VariantsAgree ==
    (Unanswered /\ NoResponseTaken) => caller.res.status = "TimeoutError"

-----------------------------------------------------------------------------
(* C39 *)

\* the declared length of the encoder's frame, read from bytes 1 and 2
EncodedLength == c_frame[2] + 256 * c_frame[3]

\* the bytes of the encoder's frame between the 11-byte header and the trailer
EncodedPayload == SubSeq(c_frame, 12, Len(c_frame) - 2)

\* the sequence number the encoder issued is the successor of the counter, or
\* a first draw of randrange(0x01, 0xFF)
NewlyIssued ==
    IF c_seq0 = None THEN c_seq \in 1..254 ELSE c_seq = (c_seq0 + 1) % 256

\* C39: the frame _v5_frame_encoder builds around a PDU has the length field
\* 15 + len(pdu), which is the number of bytes between the 11-byte header and
\* the 2-byte trailer; start 0xA5, control code 0x10 0x45, the newly issued
\* sequence number in byte 5 and zero in byte 6, the logger serial in bytes
\* 7..10, frame type 0x02, fourteen zero bytes of sensor type and time fields,
\* the PDU unchanged, the checksum of bytes 1..-3 and the end marker 0x15.
C39_EncodedFrameLayout ==
    c_pc \in {"encoded", "decoded"} =>
        /\ Len(c_frame) = 11 + 15 + Len(c_pdu) + 2
        /\ EncodedLength = 15 + Len(c_pdu)
        /\ Len(EncodedPayload) = EncodedLength
        /\ c_frame[1] = 165 /\ c_frame[4] = 16 /\ c_frame[5] = 69
        /\ NewlyIssued /\ c_frame[6] = c_seq /\ c_frame[7] = 0
        /\ SubSeq(c_frame, 8, 11) = v5_serial
        /\ c_frame[12] = 2
        /\ \A i \in 13..26 : c_frame[i] = 0
        /\ SubSeq(c_frame, 27, Len(c_frame) - 2) = c_pdu
        /\ c_frame[Len(c_frame) - 1] = SumBytes(SubSeq(c_frame, 2, Len(c_frame) - 2)) % 256
        /\ c_frame[Len(c_frame)] = 21

\* the encoder has wrapped a PDU of the greatest length on a counter that
\* wrapped from 255 to 0
C39_Witness ==
    c_pc = "encoded" /\ Len(c_pdu) = MaxPduLen /\ c_seq0 = 255 /\ c_seq = 0
        /\ c_frame[Len(c_frame)] = 21

-----------------------------------------------------------------------------
(* C38 *)

\* the step in which the threaded receive loop w passes the protocol frame f,
\* which has the start byte and the current sequence number, to
\* _handle_protocol_frame
BuildsTimeSyncReply(w, f) ==
    /\ variant = "thread" /\ workers[w].pc = "frame" /\ workers[w].data = f
    /\ workers'[w].pc # "frame"
    /\ IsProtocolFrame(f)
    /\ _received_frame_is_valid(f, sequence_number) = "valid"

\* r is a time-sync reply to f: response control code, f's sequence pair with
\* the low byte incremented, the logger serial, declared length 10 with ten
\* payload bytes, checksum and end marker
TimeSyncLayout(r, f) ==
    /\ Len(r) = 11 + 10 + 2
    /\ r[1] = v5_start /\ r[2] = 10 /\ r[3] = 0 /\ r[4] = v5_control_code_suffix
    /\ r[5] = f[5] - 48
    /\ r[6] = (f[6] + 1) % 256
    /\ r[7] = f[7]
    /\ SubSeq(r, 8, 11) = v5_serial
    /\ r[Len(r) - 1] = SumBytes(SubSeq(r, 2, Len(r) - 2)) % 256
    /\ r[Len(r)] = v5_end

\* C38: the time-sync reply built for a received protocol frame has the
\* control code of the frame minus 0x30, byte 5 of the frame plus one modulo 256
\* and byte 6 of the frame as its sequence pair, the logger serial, a declared
\* length of 10 with ten payload bytes, a valid checksum and the end marker.
C38_TimeSyncReplyLayout ==
    [][\A w \in ConnIds : \A f \in UnsolicitedFrames :
          BuildsTimeSyncReply(w, f) =>
              LET r == _v5_time_response_frame(f, 0)
              IN  r.ok /\ TimeSyncLayout(r.pdu, f)]_vars

-----------------------------------------------------------------------------
(* C31 *)

\* the steps of the receive loop w the claim is about: it checks and handles
\* the bytes it has read, hands a frame over, or writes the frame to resubmit
HandlesInput(w) ==
    IF variant = "thread"
    THEN workers[w].pc \in {"frame", "route", "put", "rc_after"}
    ELSE workers[w].pc = "read" /\ conns[w].inbox # <<>>

\* C31: no byte sequence the receive loop reads (a frame shorter than six
\* bytes included), no full hand-off queue and no failing write of a reply or
\* of a resubmitted frame ends the loop with an unhandled exception.
C31_LoopNeverCrashes ==
    [][\A w \in ConnIds : HandlesInput(w) => workers'[w].pc # "crashed"]_vars

-----------------------------------------------------------------------------
(* C32 *)

\* the receive loops that are running: reader threads from their registration
\* to the end of _data_receiver's loop, reader tasks suspended in read()
RunningLoops ==
    {w \in ConnIds : workers[w].pc \in {"register", "poll", "recv", "frame", "route", "put", "read"}}

\* C32: at any time at most one receive loop (reader thread or reader task)
\* runs on the session, whatever the interleaving of connection loss,
\* automatic reconnect, reconnect called by the caller and disconnect.
C32_OneReceiveLoop == Cardinality(RunningLoops) <= 1

-----------------------------------------------------------------------------
(* C33 *)

\* auto-reconnect is disabled, the data logger has closed the session's
\* connection (or the session has closed it after reading the end of the
\* stream) and the caller has not called disconnect
ConnectionLost ==
    /\ ~auto_reconnect /\ caller.ndisc = 0
    /\ \E c \in ConnIds : conns[c].peer_closed \/ conns[c].st = "closed"

\* the loss has run its course: no receive loop is left
LossEnded == ConnectionLost /\ \A w \in ConnIds : ~IsAlive(w)

\* the step in which a request call passes its entry: the check of the reader
\* thread (threaded), the call up to its wait (asyncio)
RequestEnters ==
    IF variant = "thread" THEN caller.pc = "alive" /\ caller'.pc # "alive"
    ELSE caller.pc = "idle" /\ caller'.op = "request"

\* C33: with auto-reconnect disabled a connection loss ends in the disconnected
\* state: no step opens a connection or starts a receive loop after the loss,
\* and every request call made once the receive loop has stopped fails with
\* NoSocketAvailableError.
C33_LossEndsDisconnected ==
    /\ [][ConnectionLost =>
             \A c \in ConnIds : /\ conns[c].st = "unborn" => conns'[c].st = "unborn"
                                /\ workers[c].pc = "unborn" => workers'[c].pc = "unborn"]_vars
    /\ [][(LossEnded /\ RequestEnters) =>
             caller'.pc = "done" /\ caller'.res.status = "NoSocketAvailableError"]_vars

-----------------------------------------------------------------------------
(* C34 *)

\* the step in which the read of receive loop w fails with an error
ReadFails(w) ==
    IF variant = "thread"
    THEN /\ workers[w].pc = "recv" /\ workers'[w].pc # "recv" /\ sock # 0
         /\ conns[sock].st = "open" /\ conns[sock].inbox = <<>> /\ conns[sock].err # ""
    ELSE /\ workers[w].pc = "read" /\ workers'[w].pc \notin {"read", "cancelled"}
         /\ conns[w].st = "open" /\ conns[w].inbox = <<>> /\ conns[w].err # ""

\* what receive loop w does next after a zero-length read: the threaded loop
\* goes on with data = b"", the asyncio loop leaves its loop, drops reader and
\* writer and, with auto-reconnect, creates the reconnect task
AsAfterZeroRead(w) ==
    IF variant = "thread"
    THEN workers'[w].pc = "zero" /\ workers'[w].data = <<>>
    ELSE /\ sock' = 0
         /\ workers'[w].pc = IF auto_reconnect THEN "rc_start" ELSE "done"

\* C34: a read of the receive loop that fails (connection reset, timeout) is
\* handled like a zero-length read and enters the reconnect path; the error
\* never leaves the loop, in both variants.
C34_ReadFailureIsZeroRead ==
    [][\A w \in ConnIds : ReadFails(w) => AsAfterZeroRead(w)]_vars


-----------------------------------------------------------------------------
(* C35: a frame the receive loop accepts and the decoder rejects *)

\* f has the start byte and the sequence number of the request in flight, is
\* no protocol frame, and the decoder raises on it
FailsAnotherCheck(f) ==
    /\ f # <<>>
    /\ _received_frame_is_valid(f, sequence_number) = "valid"
    /\ ~IsProtocolFrame(f)
    /\ ~_v5_frame_decoder(f, sequence_number, FALSE).ok

\* this step is the one in which the receive loop w decides what to do with
\* the frame it has accepted
Disposes(w) ==
    IF variant = "thread"
    THEN workers[w].pc = "route" /\ workers'[w].pc # "route"
    ELSE /\ workers[w].pc = "read" /\ conns[w].inbox # <<>>
         /\ conns'[w].inbox # conns[w].inbox

DisposedFrame(w) == IF variant = "thread" THEN workers[w].data ELSE Head(conns[w].inbox)

\* after the step the frame is in the queue of the call or on its way there
\* (or the queue holds an earlier frame, which the call takes instead)
HandedOver(w, f) == data_queue' # <<>> \/ workers'[w].pc = "put"

\* this step is the one in which the call takes frame f and decodes it
TakesFrame ==
    IF variant = "thread"
    THEN caller.pc = "got" /\ caller'.pc # "got"
    ELSE /\ caller.pc = "wait" /\ caller'.pc # "wait"
         /\ data_queue # <<>> /\ data_queue' = Tail(data_queue)

TakenFrame == IF variant = "thread" THEN caller.rframe ELSE Head(data_queue)

\* C35: a frame with the right start byte and sequence number that is no
\* protocol frame and fails another check of the decoder ends the request in
\* flight with V5FrameError: the receive loop hands it to the call instead of
\* dropping it and waiting on, and the call that takes it raises V5FrameError
\* and writes nothing to the socket.
C35_BadFrameEndsRequest ==
    [][/\ \A w \in ConnIds :
             (InFlight /\ Disposes(w) /\ FailsAnotherCheck(DisposedFrame(w)))
                 => HandedOver(w, DisposedFrame(w))
       /\ (TakesFrame /\ FailsAnotherCheck(TakenFrame))
             => /\ caller'.pc = "done"
                /\ caller'.res.status \in V5FrameErrors
                /\ conns' = conns]_vars

-----------------------------------------------------------------------------
(* C36: who writes to the socket *)

\* the caller thread is at self.sock.sendall(frame) of the request path (the
\* asyncio request path writes and returns within one step of the event loop)
CallerAtWrite ==
    variant = "thread" /\ caller.pc = "send" /\ sock # 0 /\ conns[sock].st = "open"

\* the receive loop w is at a sendall of its own: the resubmitted frame after
\* its reconnect, or the reply to a protocol frame
LoopAtWrite(w) ==
    /\ variant = "thread"
    /\ sock # 0
    /\ conns[sock].st = "open"
    /\ \/ workers[w].pc = "rc_after" /\ workers[w].wanted
       \/ /\ workers[w].pc = "frame"
          /\ _received_frame_is_valid(workers[w].data, sequence_number) = "valid"
          /\ ~_received_frame_response(workers[w].data, 0).do_continue
          /\ _received_frame_response(workers[w].data, 0).response.ok
          /\ IsAlive(reader_thr)

\* C36: writes to the socket are never concurrent: the caller is never at its
\* write of a request frame while a receive loop is at a write of its own
\* (a time-sync reply or a resubmitted frame) to the same socket.
C36_WritesNeverConcurrent ==
    \A w \in ConnIds : ~(CallerAtWrite /\ LoopAtWrite(w))

-----------------------------------------------------------------------------
(* C37: termination of a request call *)

\* a request call has started and has not returned or raised yet
InCall == caller.op = "request" /\ caller.pc \notin {"idle", "done"}

\* the ways a request call ends
CallOutcomes ==
    {"ok", "queue.Empty", "TimeoutError", "NoSocketAvailableError", "AttributeError",
     "OSError", "ConnectionResetError"} \cup V5FrameErrors

\* C37: every request call terminates: a call that has started returns a PDU
\* or fails with an error, whatever the receive loop, the peer and the
\* reconnect do in between.
C37_RequestTerminates ==
    InCall ~> (caller.pc = "done" /\ caller.op = "request"
               /\ caller.res.status \in CallOutcomes)

\* reached: a call that waited on a connection that was lost and replaced in
\* the meantime has ended with the timeout
C37_Witness ==
    /\ caller.pc = "done" /\ caller.op = "request"
    /\ caller.res.status \in {"queue.Empty", "TimeoutError"}
    /\ caller.conn # 0 /\ sock # 0 /\ sock # caller.conn

====
